---- MODULE Spec2Model ----
(***************************************************************************)
(* A model of the GbxRemote client of clifga: the connection and dispatch  *)
(* engine DedicatedRemote (src/app/trackmania/gbxremote.py).               *)
(*                                                                         *)
(* Every thread that runs engine code has a stack of frames, one frame per *)
(* running invocation of call(), connect(), stop() or the reconnector;     *)
(* each frame has a pc.  The receive loop threads have a pc of their own.  *)
(* The server and the network are the environment.                         *)
(***************************************************************************)
EXTENDS Integers, Sequences, FiniteSets, TLC

\* ------------------------------------------------------------- bounds
NumUsers == 2       \* threads of the application that use the engine
MaxOps == 2         \* engine operations each of them starts
MaxSock == 3        \* sockets the engine creates in one run
MaxReq == 3         \* call() invocations (one Event object each) in one run
\* the same, for the runs of one application thread
MaxOpsSolo == 2
MaxSockSolo == 2
MaxReqSolo == 3
MaxSockFair == 1     \* sockets in the runs with a server that delays payloads
ConnRetries == 1    \* the configured connRetries (gbxremote.py:13 defaults to 3)

\* -------------------------------------------------- program constants
\* A handle is a Python integer. It is written <<hi, lo>>, standing for
\* hi * 2^16 + lo with 0 <= lo < 2^16, so that the values around 2^32 can
\* be written down.
BaseHandler == <<32768, 0>>          \* 0x80000000
LastHandler == <<65535, 65535>>      \* 0xffffffff
\* n + 1
Succ(n) == IF n[2] = 65535 THEN <<n[1] + 1, 0>> ELSE <<n[1], n[2] + 1>>
\* n < 0x80000000, and n > 0xffffffff
BelowBase(n) == n[1] < 32768
Above32Bits(n) == n[1] > 65535

Users == 1 .. NumUsers
SockIds == 1 .. (IF MaxSock > MaxSockSolo THEN MaxSock ELSE MaxSockSolo)
\* The reconnector thread spawned by receive thread r, and the identity
\* under which receive thread r owns a lock.
RcId(r) == 10 + r
RecvId(r) == 20 + r
Reconnectors == {RcId(r) : r \in SockIds}
Receivers == {RecvId(r) : r \in SockIds}
Threads == Users \cup Reconnectors \cup Receivers

VARIABLES
    connalive,      \* self.connalive
    socket,         \* self.socket: 0 is None, else the socket object's id
    sockState,      \* each socket object: "none" (not created), "unconn", "badhdr", "open", "reset"
    sent,           \* the request frames written on the current socket, in order
    partial,        \* the frame whose prefix the receive loop has read, its payload to come
    handlers,       \* self.handlers: handle -> [ev, result]
    curr_handler,   \* self._curr_handler
    recv_loop_t,    \* self._recv_loop_t: 0 is None, else the receive thread's id
    rstate,         \* each receive thread's pc
    lockOwner,      \* self.socketlock: 0 is free, else the owning thread
    evSet,          \* the Event objects that are set
    stack,          \* each thread's stack of frames
    ret,            \* each thread's last returned value or raised exception
    ops,            \* operations each user thread has started
    nextSock,       \* sockets created so far
    nextEv,         \* call() invocations so far, by thread
    limit,          \* the bounds of the run: [ops, sock, req]
    wire,           \* what the server has written that has not reached the socket
    rbuf,           \* the bytes in the socket's receive buffer
    hdr,            \* the locals of the receive loop's turn: the unpacked size and
                    \* handler, or the subscribers still to invoke for a callback
    callbacks,      \* self.callbacks: method -> the subscribers registered, in order
    invoked,        \* the invocations of subscribers that have run, in order
    spawned,        \* the threads started for subscribers that have not run yet
    players,        \* GameStateTracker.players: the roster, a list of logins
    playersCache,   \* GameStateTracker.playersCache: login -> the player record kept
    heap,           \* the player records (dict objects) there are, by identity
    chat,           \* GameStateTracker.chat: the chat buffer
    chatLock,       \* the thread that holds chatLock, or 0
    maxChatLines,   \* GameStateTracker.maxChatLines
    matchStart,     \* GameStateTracker.matchStart
    srvRoster,      \* the players the server holds and enumerates in GetPlayerList
    events,         \* the callbacks and roster entries the tracker has processed,
                    \* in order
    held,           \* what the readers of the tracker have been returned
    rawCommand,     \* Parser.rawCommand: the command line, a sequence of characters
    parsed,         \* what Parser.parse() has returned or raised
    emitted,        \* the value the command line was written from, if any
    tokens          \* Tokenizer.tokens: what tokenize() has lexed

vars == <<connalive, socket, sockState, sent, partial, handlers, curr_handler,
          recv_loop_t, rstate, lockOwner, evSet, stack, ret, ops, nextSock, nextEv,
          limit, wire, rbuf, hdr, callbacks, invoked, spawned,
          players, playersCache, heap, chat, chatLock, maxChatLines, matchStart,
          srvRoster, events, held, rawCommand, parsed, emitted, tokens>>

\* the variables of the byte stream and of the callback dispatch
streamVars == <<wire, rbuf, hdr>>
dispatchVars == <<callbacks, invoked, spawned>>
parserVars == <<rawCommand, parsed, emitted, tokens>>

\* the variables of the game-state tracker and of its environment
trackerVars == <<players, playersCache, heap, chat, chatLock, maxChatLines, matchStart,
                 srvRoster, events, held>>

\* ------------------------------------------------------------ values
\* A Python value as far as the engine looks at it: its kind, and for a
\* response the request frame (by the Event of the call that wrote it) it answers.
Val(k, r) == [kind |-> k, req |-> r]
PyNone == Val("none", 0)
PyTrue == Val("true", 0)
PyFalse == Val("false", 0)

NoRet == [kind |-> "none", val |-> PyNone, ev |-> 0, op |-> "none"]
Returned(op, v, e) == [kind |-> "value", val |-> v, ev |-> e, op |-> op]
Raised(op, x, e) == [kind |-> "raise", val |-> Val(x, 0), ev |-> e, op |-> op]

EmptyTable == [h \in {} |-> [ev |-> 0, result |-> PyNone]]

\* self.callbacks = dict() (line 32)
NoCallbacks == [m \in {} |-> <<>>]

\* GameStateTracker.__init__, state.py lines 11-26, with the default
\* maxChatLines, and no reader yet
DefaultChatLines == 50
NoCache == [l \in {} |-> 0]

\* No command line has been given to the parser
NotParsed == [kind |-> "none"]
NoValue == [none |-> TRUE]

NoParser ==
    /\ rawCommand = <<>>
    /\ parsed = NotParsed
    /\ emitted = NoValue
    /\ tokens = <<>>

NoTracker ==
    /\ players = <<>>
    /\ playersCache = NoCache
    /\ heap = <<>>
    /\ chat = <<>>
    /\ chatLock = 0
    /\ maxChatLines = DefaultChatLines
    /\ matchStart = 0
    /\ srvRoster = <<>>
    /\ events = <<>>
    /\ held = {}

\* Nothing on the wire, and nobody subscribed
QuietWire ==
    /\ wire = <<>>
    /\ rbuf = <<>>
    /\ hdr = <<>>
    /\ callbacks = NoCallbacks
    /\ invoked = <<>>
    /\ spawned = {}

Quiet ==
    /\ QuietWire
    /\ NoTracker
    /\ NoParser

Frame(op, pc, m, retry, mr) ==
    [op |-> op, pc |-> pc, method |-> m, retry |-> retry,
     nh |-> <<0, 0>>, ev |-> 0, maxretries |-> mr, retries |-> 0, sock |-> 0,
     index |-> 0, attemptcb |-> FALSE, attempted |-> <<>>, login |-> 0]

CallFrame(m, retry) == Frame("call", "check", m, retry, 0)
ConnectFrame(mr) == Frame("connect", "begin", "", FALSE, mr)
\* connect(maxretries, attemptcb=...), as uicontroller.py line 59 calls it
ConnectWithCb(mr) == [ConnectFrame(mr) EXCEPT !.attemptcb = TRUE]
StopFrame == Frame("stop", "begin", "", FALSE, 0)
ReconnectFrame == Frame("reconnect", "loop", "", FALSE, 0)

Top(t) == stack[t][Len(stack[t])]
Running(t, op, pc) ==
    /\ Len(stack[t]) > 0
    /\ Top(t).op = op
    /\ Top(t).pc = pc

ButLast(s) == SubSeq(s, 1, Len(s) - 1)
ReplaceTop(s, f) == [s EXCEPT ![Len(s)] = f]

ConstructedEngine ==
    /\ connalive = FALSE
    /\ socket = 0
    /\ sockState = [s \in SockIds |-> "none"]
    /\ sent = <<>>
    /\ partial = <<>>
    /\ handlers = EmptyTable
    /\ curr_handler = BaseHandler
    /\ recv_loop_t = 0
    /\ rstate = [r \in SockIds |-> "none"]
    /\ lockOwner = 0
    /\ evSet = {}
    /\ stack = [t \in Threads |-> <<>>]
    /\ ret = [t \in Threads |-> NoRet]
    /\ ops = [t \in Users |-> 0]
    /\ nextSock = 0
    /\ nextEv = [t \in Threads |-> 0]

Constructed ==
    /\ ConstructedEngine
    /\ Quiet

Init ==
    /\ Constructed
    /\ limit = [ops |-> MaxOps, sock |-> MaxSock, req |-> MaxReq]

InitSolo ==
    /\ Constructed
    /\ limit = [ops |-> MaxOpsSolo, sock |-> MaxSockSolo, req |-> MaxReqSolo]

\* ---------------------------------------------------- calls and returns
\* A frame of call() at "resubmitted" is at line 363, `return self.call(...)`:
\* it returns what the nested call returns.
RECURSIVE Unwound(_)
Unwound(s) ==
    IF Len(s) > 0 /\ s[Len(s)].op = "call" /\ s[Len(s)].pc = "resubmitted"
    THEN Unwound(ButLast(s))
    ELSE s

\* The top frame of t returns r to its caller.
ReturnValue(t, r) ==
    /\ stack' = [stack EXCEPT ![t] = Unwound(ButLast(@))]
    /\ ret' = [ret EXCEPT ![t] = r]

\* The top frame of t raises r. connect() has no try, and call() invokes
\* connect() and itself only inside its except clause (lines 362-363), so the
\* exception leaves every frame of the thread.
RaiseFrom(t, r) ==
    /\ stack' = [stack EXCEPT ![t] = <<>>]
    /\ ret' = [ret EXCEPT ![t] = r]

\* The top frame of t moves to pc and invokes frame f.
Invoke(t, pc, f) ==
    /\ stack' = [stack EXCEPT ![t] = Append(ReplaceTop(@, [Top(t) EXCEPT !.pc = pc]), f)]
    /\ ret' = [ret EXCEPT ![t] = NoRet]

Goto(t, pc) ==
    stack' = [stack EXCEPT ![t] = ReplaceTop(@, [Top(t) EXCEPT !.pc = pc])]

\* call() invocations so far
RECURSIVE Sum(_, _)
Sum(f, S) == IF S = {} THEN 0 ELSE LET x == CHOOSE y \in S : TRUE IN f[x] + Sum(f, S \ {x})
Invocations == Sum(nextEv, Threads)

\* A new frame of call() on thread t. Its Event object is named after the
\* thread and the number of the invocation on that thread.
NewCall(t, m, retry) == [CallFrame(m, retry) EXCEPT !.ev = 100 * t + nextEv[t] + 1]

\* ------------------------------------------------------------ call()
\* lines 327-329 and, in _next_handler, line 86
CallCheck(t) ==
    /\ Running(t, "call", "check")
    /\ IF connalive
       THEN stack' = [stack EXCEPT ![t] =
                ReplaceTop(@, [Top(t) EXCEPT !.pc = "alloc", !.nh = curr_handler])]
            /\ UNCHANGED ret
       ELSE RaiseFrom(t, Raised("call", "NoConnection", Top(t).ev))
    /\ UNCHANGED <<connalive, socket, sockState, sent, partial, handlers, curr_handler,
                   recv_loop_t, rstate, lockOwner, evSet, ops, nextSock, nextEv>>
    /\ UNCHANGED <<limit, streamVars, dispatchVars, trackerVars, parserVars>>

\* an allocator that goes on past 0xffffffff
NextHandlerNoWrap(nexthandler, curr) == Succ(curr)

\* _next_handler lines 88-93
NextHandler(nexthandler, curr) ==
    IF nexthandler = LastHandler THEN BaseHandler ELSE Succ(curr)

\* lines 88-93 and 333-338
CallAlloc(t) ==
    /\ Running(t, "call", "alloc")
    /\ curr_handler' = NextHandler(Top(t).nh, curr_handler)
    /\ handlers' = (Top(t).nh :> [ev |-> Top(t).ev, result |-> PyNone]) @@ handlers
    /\ Goto(t, "send")
    /\ UNCHANGED <<connalive, socket, sockState, sent, partial, recv_loop_t, rstate,
                   lockOwner, evSet, ret, ops, nextSock, nextEv>>
    /\ UNCHANGED <<limit, streamVars, dispatchVars, trackerVars, parserVars>>

\* a lock that its owner cannot take again (threading.Lock)
AcquirableOnce(owner, t) == owner = 0

\* self.socketlock = threading.RLock() (line 25): thread t takes it when it
\* is free, and again when t owns it
Acquirable(owner, t) == owner \in {0, t}

\* socket.send on a socket in state st raises a connection error
SendFails(st) == st \in {"unconn", "reset"}

\* lines 342-344, and the except clause of lines 356-366
CallSend(t) ==
    /\ Running(t, "call", "send")
    /\ LET f == Top(t) IN
       IF Above32Bits(f.nh)
       THEN \* handler.to_bytes(4, 'little') raises OverflowError (line 61)
            /\ RaiseFrom(t, Raised("call", "OverflowError", f.ev))
            /\ UNCHANGED <<sent, nextEv>>
       ELSE /\ Acquirable(lockOwner, t)
            /\ IF socket = 0
               THEN /\ RaiseFrom(t, Raised("call", "AttributeError", f.ev))
                    /\ UNCHANGED <<sent, nextEv>>
               ELSE IF ~SendFails(sockState[socket])
               THEN /\ sent' = Append(sent, [m |-> f.method, ev |-> f.ev, h |-> f.nh,
                                             answered |-> FALSE])
                    /\ Goto(t, "wait")
                    /\ UNCHANGED <<ret, nextEv>>
               ELSE IF f.retry
               THEN /\ Invoke(t, "conn_ret", ConnectFrame(ConnRetries))
                    /\ UNCHANGED <<sent, nextEv>>
               ELSE \* the except clause ends without a raise: call() returns None
                    /\ ReturnValue(t, Returned("call", PyNone, f.ev))
                    /\ UNCHANGED <<sent, nextEv>>
    /\ UNCHANGED <<connalive, socket, sockState, partial, handlers, curr_handler,
                   recv_loop_t, rstate, lockOwner, evSet, ops, nextSock>>
    /\ UNCHANGED <<limit, streamVars, dispatchVars, trackerVars, parserVars>>

\* lines 348-350: the Event is set
CallResult(t) ==
    /\ Running(t, "call", "wait")
    /\ Top(t).ev \in evSet
    /\ IF Top(t).nh \in DOMAIN handlers
       THEN ReturnValue(t, Returned("call", handlers[Top(t).nh].result, Top(t).ev))
       ELSE RaiseFrom(t, Raised("call", "KeyError", Top(t).ev))
    /\ UNCHANGED <<connalive, socket, sockState, sent, partial, handlers, curr_handler,
                   recv_loop_t, rstate, lockOwner, evSet, ops, nextSock, nextEv>>
    /\ UNCHANGED <<limit, streamVars, dispatchVars, trackerVars, parserVars>>

\* lines 348 and 352: resultTimeout elapses before the Event is set
CallTimeout(t) ==
    /\ Running(t, "call", "wait")
    /\ Top(t).ev \notin evSet
    /\ RaiseFrom(t, Raised("call", "Timeout", Top(t).ev))
    /\ UNCHANGED <<connalive, socket, sockState, sent, partial, handlers, curr_handler,
                   recv_loop_t, rstate, lockOwner, evSet, ops, nextSock, nextEv>>
    /\ UNCHANGED <<limit, streamVars, dispatchVars, trackerVars, parserVars>>

\* lines 362-366: connect(self.connRetries) has returned
CallReconnected(t) ==
    /\ Running(t, "call", "conn_ret")
    /\ IF ret[t].val.kind = "true"
       THEN /\ Invocations < limit.req
            /\ Invoke(t, "resubmitted", NewCall(t, Top(t).method, FALSE))
            /\ nextEv' = [nextEv EXCEPT ![t] = @ + 1]
       ELSE /\ RaiseFrom(t, Raised("call", "ConnError", Top(t).ev))
            /\ UNCHANGED nextEv
    /\ UNCHANGED <<connalive, socket, sockState, sent, partial, handlers, curr_handler,
                   recv_loop_t, rstate, lockOwner, evSet, ops, nextSock>>
    /\ UNCHANGED <<limit, streamVars, dispatchVars, trackerVars, parserVars>>

\* ---------------------------------------------------------- connect()
Finished(r) == rstate[r] \in {"done", "crashed"}

\* __reset, lines 39-46. The frames of the socket object that self.socket
\* named go with it: nothing reads or writes that socket again.
Reset ==
    /\ connalive' = FALSE
    /\ socket' = 0
    /\ handlers' = EmptyTable
    /\ curr_handler' = BaseHandler
    /\ recv_loop_t' = 0
    /\ sent' = <<>>

\* lines 244-253
ConnectBegin(t) ==
    /\ Running(t, "connect", "begin")
    /\ IF recv_loop_t # 0
       THEN /\ connalive' = FALSE
            /\ Goto(t, "join")
            /\ UNCHANGED <<socket, handlers, curr_handler, recv_loop_t, sent>>
       ELSE /\ Reset
            /\ stack' = [stack EXCEPT ![t] =
                   ReplaceTop(@, [Top(t) EXCEPT !.pc = "attempt", !.retries = 1])]
    /\ UNCHANGED <<sockState, partial, rstate, lockOwner, evSet, ret, ops, nextSock,
                   nextEv>>
    /\ UNCHANGED <<limit, streamVars, dispatchVars, trackerVars, parserVars>>

\* lines 248-253: self._recv_loop_t.join(), then __reset
ConnectJoin(t) ==
    /\ Running(t, "connect", "join")
    /\ IF recv_loop_t = 0
       THEN \* another connect() has reset it: None.join
            /\ RaiseFrom(t, Raised("connect", "AttributeError", 0))
            /\ UNCHANGED <<connalive, socket, handlers, curr_handler, recv_loop_t,
                           sent>>
       ELSE /\ Finished(recv_loop_t)
            /\ Reset
            /\ stack' = [stack EXCEPT ![t] =
                   ReplaceTop(@, [Top(t) EXCEPT !.pc = "attempt", !.retries = 1])]
            /\ UNCHANGED ret
    /\ UNCHANGED <<sockState, partial, rstate, lockOwner, evSet, ops, nextSock, nextEv>>
    /\ UNCHANGED <<limit, streamVars, dispatchVars, trackerVars, parserVars>>

\* What an attempt meets: the host does not resolve or refuses ("unconn"),
\* the server sends a header that is not in validHeaders ("badhdr"), or the
\* server sends 'GBXRemote 2' ("open").
AttemptOutcomes == {"unconn", "badhdr", "open"}

\* a connect() that gives up after any failed attempt
GiveUpAlways(maxretries, retries) == TRUE

\* a connect() that gives up one attempt early
GiveUpEarly(maxretries, retries) == maxretries >= 0 /\ retries + 1 >= maxretries

\* line 290
GiveUp(maxretries, retries) == maxretries >= 0 /\ retries >= maxretries

\* lines 256-257: attemptcb(retries, maxretries), if one was passed; the
\* frame keeps the arguments of the invocations
AttemptCb(f) ==
    IF f.attemptcb
    THEN [f EXCEPT !.attempted = Append(@, <<f.retries, f.maxretries>>)]
    ELSE f

\* lines 256-260 and 288-296, with _attempt_connection (lines 107-132)
ConnectAttempt(t) ==
    /\ Running(t, "connect", "attempt")
    /\ nextSock < limit.sock
    /\ \E outcome \in AttemptOutcomes :
        LET s == nextSock + 1
            f == AttemptCb(Top(t))
        IN  /\ nextSock' = s
            /\ socket' = s
            /\ sockState' = [sockState EXCEPT ![s] = outcome]
            /\ sent' = <<>>
            /\ IF outcome = "open"
               THEN /\ stack' = [stack EXCEPT ![t] =
                          ReplaceTop(@, [f EXCEPT !.pc = "alive", !.sock = s])]
                    /\ UNCHANGED ret
               ELSE IF GiveUp(f.maxretries, f.retries)
               THEN ReturnValue(t, Returned("connect", PyFalse, 0))
               ELSE /\ stack' = [stack EXCEPT ![t] =
                          ReplaceTop(@, [f EXCEPT !.retries = f.retries + 1, !.sock = s])]
                    /\ UNCHANGED ret
    /\ UNCHANGED <<connalive, partial, handlers, curr_handler, recv_loop_t, rstate,
                   lockOwner, evSet, ops, nextEv>>
    /\ UNCHANGED <<limit, streamVars, dispatchVars, trackerVars, parserVars>>

\* lines 262-271: the alive flag, the receive thread, then _authenticate
ConnectAlive(t) ==
    /\ Running(t, "connect", "alive")
    /\ Invocations < limit.req
    /\ connalive' = TRUE
    /\ recv_loop_t' = Top(t).sock
    /\ rstate' = [rstate EXCEPT ![Top(t).sock] = "run"]
    /\ Invoke(t, "auth_ret", NewCall(t, "Authenticate", TRUE))
    /\ nextEv' = [nextEv EXCEPT ![t] = @ + 1]
    /\ UNCHANGED <<socket, sockState, sent, partial, handlers, curr_handler, lockOwner,
                   evSet, ops, nextSock>>
    /\ UNCHANGED <<limit, streamVars, dispatchVars, trackerVars, parserVars>>

\* _authenticate, lines 98-105
AuthSuccess(v) == v.kind \in {"ok", "true"}

\* a connect() that returns False on a refusal and leaves the alive flag set
ConnectRefusedStaysAlive(t) ==
    /\ Running(t, "connect", "auth_ret")
    /\ IF AuthSuccess(ret[t].val)
       THEN /\ Invocations < limit.req
            /\ Invoke(t, "api_ret", NewCall(t, "SetApiVersion", TRUE))
            /\ nextEv' = [nextEv EXCEPT ![t] = @ + 1]
       ELSE /\ ReturnValue(t, Returned("connect", PyFalse, 0))
            /\ UNCHANGED nextEv
    /\ UNCHANGED <<connalive, socket, sockState, sent, partial, handlers, curr_handler,
                   recv_loop_t, rstate, lockOwner, evSet, ops, nextSock, limit,
                   streamVars, dispatchVars, trackerVars, parserVars>>

\* lines 271-280
ConnectAuthenticated(t) ==
    /\ Running(t, "connect", "auth_ret")
    /\ IF AuthSuccess(ret[t].val)
       THEN /\ Invocations < limit.req
            /\ Invoke(t, "api_ret", NewCall(t, "SetApiVersion", TRUE))
            /\ nextEv' = [nextEv EXCEPT ![t] = @ + 1]
            /\ UNCHANGED connalive
       ELSE /\ connalive' = FALSE
            /\ ReturnValue(t, Returned("connect", PyFalse, 0))
            /\ UNCHANGED nextEv
    /\ UNCHANGED <<socket, sockState, sent, partial, handlers, curr_handler, recv_loop_t,
                   rstate, lockOwner, evSet, ops, nextSock>>
    /\ UNCHANGED <<limit, streamVars, dispatchVars, trackerVars, parserVars>>

\* line 284
ConnectApiSet(t) ==
    /\ Running(t, "connect", "api_ret")
    /\ Invocations < limit.req
    /\ Invoke(t, "cb_ret", NewCall(t, "EnableCallbacks", TRUE))
    /\ nextEv' = [nextEv EXCEPT ![t] = @ + 1]
    /\ UNCHANGED <<connalive, socket, sockState, sent, partial, handlers, curr_handler,
                   recv_loop_t, rstate, lockOwner, evSet, ops, nextSock>>
    /\ UNCHANGED <<limit, streamVars, dispatchVars, trackerVars, parserVars>>

\* line 286
ConnectDone(t) ==
    /\ Running(t, "connect", "cb_ret")
    /\ ReturnValue(t, Returned("connect", PyTrue, 0))
    /\ UNCHANGED <<connalive, socket, sockState, sent, partial, handlers, curr_handler,
                   recv_loop_t, rstate, lockOwner, evSet, ops, nextSock, nextEv>>
    /\ UNCHANGED <<limit, streamVars, dispatchVars, trackerVars, parserVars>>

\* ------------------------------------------------------------- stop()
\* lines 302-305
StopBegin(t) ==
    /\ Running(t, "stop", "begin")
    /\ IF recv_loop_t # 0
       THEN /\ connalive' = FALSE
            /\ Goto(t, "join")
            /\ UNCHANGED ret
       ELSE /\ ReturnValue(t, Returned("stop", PyNone, 0))
            /\ UNCHANGED connalive
    /\ UNCHANGED <<socket, sockState, sent, partial, handlers, curr_handler, recv_loop_t,
                   rstate, lockOwner, evSet, ops, nextSock, nextEv>>
    /\ UNCHANGED <<limit, streamVars, dispatchVars, trackerVars, parserVars>>

\* line 306
StopJoin(t) ==
    /\ Running(t, "stop", "join")
    /\ IF recv_loop_t = 0
       THEN RaiseFrom(t, Raised("stop", "AttributeError", 0))
       ELSE /\ Finished(recv_loop_t)
            /\ ReturnValue(t, Returned("stop", PyNone, 0))
    /\ UNCHANGED <<connalive, socket, sockState, sent, partial, handlers, curr_handler,
                   recv_loop_t, rstate, lockOwner, evSet, ops, nextSock, nextEv>>
    /\ UNCHANGED <<limit, streamVars, dispatchVars, trackerVars, parserVars>>

\* ----------------------------------------------- __internal_reconnect
\* lines 72-79
ReconnectLoop(t) ==
    /\ Running(t, "reconnect", "loop")
    /\ IF connalive
       THEN ReturnValue(t, Returned("reconnect", PyNone, 0))
       ELSE Invoke(t, "rc_ret", ConnectFrame(-1))
    /\ UNCHANGED <<connalive, socket, sockState, sent, partial, handlers, curr_handler,
                   recv_loop_t, rstate, lockOwner, evSet, ops, nextSock, nextEv>>
    /\ UNCHANGED <<limit, streamVars, dispatchVars, trackerVars, parserVars>>

\* lines 79-83
ReconnectRetry(t) ==
    /\ Running(t, "reconnect", "rc_ret")
    /\ IF ret[t].val.kind = "true"
       THEN ReturnValue(t, Returned("reconnect", PyNone, 0))
       ELSE /\ Goto(t, "loop")
            /\ UNCHANGED ret
    /\ UNCHANGED <<connalive, socket, sockState, sent, partial, handlers, curr_handler,
                   recv_loop_t, rstate, lockOwner, evSet, ops, nextSock, nextEv>>
    /\ UNCHANGED <<limit, streamVars, dispatchVars, trackerVars, parserVars>>

\* ------------------------------------------------------- _result_loop
\* What the server may answer to a request
Answers(m) ==
    IF m = "Authenticate" THEN {"ok", "false", "fault"}
    ELSE IF m = "GetPlayerList" THEN {"ok", "fault"}
    ELSE {"ok"}

\* The request frames on the current socket the server has not answered
Unanswered == {i \in 1 .. Len(sent) : ~sent[i].answered}

\* The response frame of kind k to the request frame sent[i]
Response(i, k) == [h |-> sent[i].h, kind |-> k, req |-> sent[i].ev]

\* a receive loop that takes a Fault for a payload that does not parse
DecodedFaultAsError(frame) ==
    IF frame.kind \in {"garbage", "fault"} THEN PyFalse ELSE Val(frame.kind, frame.req)

\* What the receive loop hands to _notify_result for a frame: the value of
\* a methodResponse (lines 156-159), the Fault (line 181), or False for a
\* payload that does not parse (line 185).
Decoded(frame) ==
    IF frame.kind = "garbage" THEN PyFalse ELSE Val(frame.kind, frame.req)

\* a notification that resolves every pending request
NotifyEveryPending(h, result) ==
    /\ handlers' = [g \in DOMAIN handlers |-> [handlers[g] EXCEPT !.result = result]]
    /\ evSet' = evSet \cup {handlers[g].ev : g \in DOMAIN handlers}

\* _notify_result, lines 134-138
NotifyResult(h, result) ==
    IF h \in DOMAIN handlers
    THEN /\ handlers' = [handlers EXCEPT ![h].result = result]
         /\ evSet' = evSet \cup {handlers[h].ev}
    ELSE UNCHANGED <<handlers, evSet>>

\* The turns of the loop that end it or end the thread: the alive flag is
\* false (lines 191-193), self.socket is None (the AttributeError of line
\* 199 is passed over at line 228, the one of line 232 ends the thread
\* before line 233 releases the lock), or the connection was reset (lines
\* 220-227).
RecvExit(r) ==
    /\ rstate[r] = "run"
    /\ IF ~connalive
       THEN /\ rstate' = [rstate EXCEPT ![r] = "done"]
            /\ UNCHANGED <<connalive, lockOwner>>
       ELSE /\ lockOwner = 0
            /\ IF socket = 0
               THEN /\ rstate' = [rstate EXCEPT ![r] = "crashed"]
                    /\ lockOwner' = RecvId(r)
                    /\ UNCHANGED connalive
               ELSE /\ sockState[socket] = "reset"
                    /\ connalive' = FALSE
                    /\ rstate' = [rstate EXCEPT ![r] = "spawn"]
                    /\ UNCHANGED lockOwner
    /\ UNCHANGED <<socket, sockState, sent, partial, handlers, curr_handler, recv_loop_t,
                   evSet, stack, ret, ops, nextSock, nextEv>>
    /\ UNCHANGED <<limit, streamVars, dispatchVars, trackerVars, parserVars>>

\* A turn can read from the socket: lines 191-199
CanRead ==
    /\ connalive
    /\ lockOwner = 0
    /\ socket # 0
    /\ sockState[socket] = "open"

\* A turn of the loop that reads a whole frame, lines 196-218 and 231-233:
\* the server has answered a request, the 8-byte prefix and the payload are
\* there. (A turn that finds nothing to read, line 228, changes nothing.)
RecvFrame(r) ==
    /\ rstate[r] = "run"
    /\ CanRead
    /\ \E i \in Unanswered : \E k \in Answers(sent[i].m) :
        /\ sent' = [sent EXCEPT ![i].answered = TRUE]
        /\ NotifyResult(sent[i].h, Decoded(Response(i, k)))
    /\ UNCHANGED <<connalive, socket, sockState, partial, curr_handler, recv_loop_t,
                   rstate, lockOwner, stack, ret, ops, nextSock, nextEv>>
    /\ UNCHANGED <<limit, streamVars, dispatchVars, trackerVars, parserVars>>

\* A turn that reads the 8-byte prefix of a frame whose payload has not
\* arrived: recv(size) of line 204 blocks, the lock held.
RecvPrefix(r) ==
    /\ rstate[r] = "run"
    /\ CanRead
    /\ \E i \in Unanswered : \E k \in Answers(sent[i].m) :
        /\ sent' = [sent EXCEPT ![i].answered = TRUE]
        /\ partial' = <<[frame |-> Response(i, k), sock |-> socket, arrived |-> FALSE]>>
    /\ rstate' = [rstate EXCEPT ![r] = "payload"]
    /\ lockOwner' = RecvId(r)
    /\ UNCHANGED <<connalive, socket, sockState, handlers, curr_handler, recv_loop_t,
                   evSet, stack, ret, ops, nextSock, nextEv>>
    /\ UNCHANGED <<limit, streamVars, dispatchVars, trackerVars, parserVars>>

\* lines 204-218 and 231-233: recv(size) returns the payload that has
\* arrived, or raises
RecvPayload(r) ==
    /\ rstate[r] = "payload"
    /\ IF socket = 0
       THEN /\ rstate' = [rstate EXCEPT ![r] = "crashed"]
            /\ UNCHANGED <<connalive, lockOwner, handlers, evSet>>
       ELSE IF sockState[socket] = "reset"
       THEN /\ connalive' = FALSE
            /\ rstate' = [rstate EXCEPT ![r] = "spawn"]
            /\ lockOwner' = 0
            /\ UNCHANGED <<handlers, evSet>>
       ELSE /\ partial[1].arrived
            /\ NotifyResult(partial[1].frame.h, Decoded(partial[1].frame))
            /\ rstate' = [rstate EXCEPT ![r] = "run"]
            /\ lockOwner' = 0
            /\ UNCHANGED connalive
    /\ partial' = <<>>
    /\ UNCHANGED <<socket, sockState, sent, curr_handler, recv_loop_t, stack, ret,
                   ops, nextSock, nextEv>>
    /\ UNCHANGED <<limit, streamVars, dispatchVars, trackerVars, parserVars>>

\* lines 235-237
RecvSpawn(r) ==
    /\ rstate[r] = "spawn"
    /\ rstate' = [rstate EXCEPT ![r] = "done"]
    /\ stack' = [stack EXCEPT ![RcId(r)] = <<ReconnectFrame>>]
    /\ UNCHANGED <<connalive, socket, sockState, sent, partial, handlers, curr_handler,
                   recv_loop_t, lockOwner, evSet, ret, ops, nextSock, nextEv>>
    /\ UNCHANGED <<limit, streamVars, dispatchVars, trackerVars, parserVars>>

\* --------------------------------------------------------- the server
\* The payload follows the prefix the receive loop has read.
ServerPayload ==
    /\ partial # <<>>
    /\ ~partial[1].arrived
    /\ partial[1].sock = socket
    /\ sockState[socket] = "open"
    /\ partial' = <<[partial[1] EXCEPT !.arrived = TRUE]>>
    /\ UNCHANGED <<connalive, socket, sockState, sent, handlers, curr_handler,
                   recv_loop_t, rstate, lockOwner, evSet, stack, ret, ops, nextSock,
                   nextEv>>
    /\ UNCHANGED <<limit, streamVars, dispatchVars, trackerVars, parserVars>>

\* The connection is reset: what was in flight is lost.
ServerReset ==
    /\ socket # 0
    /\ sockState[socket] \in {"open", "badhdr"}
    /\ sockState' = [sockState EXCEPT ![socket] = "reset"]
    /\ UNCHANGED <<connalive, socket, sent, partial, handlers, curr_handler,
                   recv_loop_t, rstate, lockOwner, evSet, stack, ret, ops, nextSock,
                   nextEv>>
    /\ UNCHANGED <<limit, streamVars, dispatchVars, trackerVars, parserVars>>

\* ------------------------------------------------- the application
\* The application's main thread connects and stops (uicontroller.py:59 and
\* 152, clcmds.py:88 and 96); it and the worker threads (uicontroller.py:200
\* and 208) call.
MainThread == 1
MaxRetriesArgs == {-1, 0, 2}

Start(t, f) ==
    /\ stack[t] = <<>>
    /\ ops[t] < limit.ops
    /\ stack' = [stack EXCEPT ![t] = <<f>>]
    /\ ops' = [ops EXCEPT ![t] = @ + 1]
    /\ ret' = [ret EXCEPT ![t] = NoRet]

UserConnect(t) ==
    /\ t = MainThread
    /\ \E mr \in MaxRetriesArgs : Start(t, ConnectWithCb(mr))
    /\ UNCHANGED <<connalive, socket, sockState, sent, partial, handlers, curr_handler,
                   recv_loop_t, rstate, lockOwner, evSet, nextSock, nextEv>>
    /\ UNCHANGED <<limit, streamVars, dispatchVars, trackerVars, parserVars>>

UserCall(t) ==
    /\ Invocations < limit.req
    /\ \E retry \in BOOLEAN : Start(t, NewCall(t, "Ping", retry))
    /\ nextEv' = [nextEv EXCEPT ![t] = @ + 1]
    /\ UNCHANGED <<connalive, socket, sockState, sent, partial, handlers, curr_handler,
                   recv_loop_t, rstate, lockOwner, evSet, nextSock>>
    /\ UNCHANGED <<limit, streamVars, dispatchVars, trackerVars, parserVars>>

UserStop(t) ==
    /\ t = MainThread
    /\ Start(t, StopFrame)
    /\ UNCHANGED <<connalive, socket, sockState, sent, partial, handlers, curr_handler,
                   recv_loop_t, rstate, lockOwner, evSet, nextSock, nextEv>>
    /\ UNCHANGED <<limit, streamVars, dispatchVars, trackerVars, parserVars>>

\* ------------------------------------------------------ specification
\* call() on thread t, but for its retry after a connection error
Call(t) ==
    \/ CallCheck(t)
    \/ CallAlloc(t)
    \/ CallSend(t)
    \/ CallResult(t)
    \/ CallTimeout(t)

\* connect() and stop() on thread t
Connect(t) ==
    \/ ConnectBegin(t)
    \/ ConnectJoin(t)
    \/ ConnectAttempt(t)
    \/ ConnectAlive(t)
    \/ ConnectAuthenticated(t)
    \/ ConnectApiSet(t)
    \/ ConnectDone(t)
    \/ StopBegin(t)
    \/ StopJoin(t)

Engine(t) ==
    \/ Call(t)
    \/ CallReconnected(t)
    \/ Connect(t)

\* the reconnector threads
Reconnector(t) ==
    \/ ReconnectLoop(t)
    \/ ReconnectRetry(t)

User(t) ==
    \/ UserConnect(t)
    \/ UserCall(t)
    \/ UserStop(t)

\* The application's threads against a server that keeps its connections:
\* no connection is reset, so no receive loop spawns a reconnector.
Next ==
    \/ \E t \in Users : Engine(t)
    \/ \E r \in SockIds : RecvExit(r) \/ RecvFrame(r)
    \/ \E t \in Users : User(t)

Spec == Init /\ [][Next]_vars

\* One application thread against a server that may reset a connection
NextSolo ==
    \/ Engine(MainThread)
    \/ \E t \in Reconnectors : Engine(t) \/ Reconnector(t)
    \/ \E r \in SockIds : RecvExit(r) \/ RecvFrame(r) \/ RecvSpawn(r)
    \/ ServerReset
    \/ User(MainThread)

SoloSpec == InitSolo /\ [][NextSolo]_vars

\* One application thread against a server that keeps its connections and
\* may send the 8-byte prefix of a frame ahead of its payload. No send
\* fails, so no call() gets to its retry. The threads of the program are
\* scheduled fairly: a thread that can take a step, whatever the others do,
\* takes one. Nothing obliges the server to send, nor the application to
\* start an operation.
InitFair ==
    /\ Constructed
    /\ limit = [ops |-> MaxOpsSolo, sock |-> MaxSockFair, req |-> MaxReqSolo]

NextFair ==
    \/ Call(MainThread)
    \/ Connect(MainThread)
    \/ \E r \in SockIds : RecvExit(r) \/ RecvFrame(r) \/ RecvPrefix(r) \/ RecvPayload(r)
    \/ ServerPayload
    \/ User(MainThread)

FairSpec ==
    /\ InitFair
    /\ [][NextFair]_vars
    /\ WF_vars(Call(MainThread) \/ Connect(MainThread))
    /\ \A r \in SockIds : WF_vars(RecvExit(r) \/ RecvPayload(r))

\* One application thread on a connected engine that has served any number
\* of calls: the counter is anywhere in its range. (The table entries of
\* the earlier calls are left out; no call() reads an entry but its own.)
StartHandlers == {BaseHandler, <<32768, 1>>, <<32768, 65535>>, <<49152, 65535>>,
                  <<65535, 65534>>, LastHandler}

InitAlloc ==
    /\ connalive = TRUE
    /\ socket = 1
    /\ sockState = [s \in SockIds |-> IF s = 1 THEN "open" ELSE "none"]
    /\ sent = <<>>
    /\ partial = <<>>
    /\ handlers = EmptyTable
    /\ curr_handler \in StartHandlers
    /\ recv_loop_t = 1
    /\ rstate = [r \in SockIds |-> IF r = 1 THEN "run" ELSE "none"]
    /\ lockOwner = 0
    /\ evSet = {}
    /\ stack = [t \in Threads |-> <<>>]
    /\ ret = [t \in Threads |-> NoRet]
    /\ ops = [t \in Users |-> 0]
    /\ nextSock = 1
    /\ nextEv = [t \in Threads |-> 0]
    /\ Quiet
    /\ limit = [ops |-> MaxOpsSolo, sock |-> MaxSockSolo, req |-> MaxReqSolo]

NextAlloc ==
    \/ Call(MainThread)
    \/ Connect(MainThread)
    \/ \E r \in SockIds : RecvExit(r) \/ RecvFrame(r)
    \/ User(MainThread)

AllocSpec == InitAlloc /\ [][NextAlloc]_vars

\* One application thread whose connect() has returned True: the engine is
\* connected and authenticated, its three calls answered. The server may
\* reset a connection from here on.
MaxSockReconnect == 3
MaxReqReconnect == 4

\* the calls of connect(), lines 269-281
ConnectSequence == <<"Authenticate", "SetApiVersion", "EnableCallbacks">>

ConnectCall(i) ==
    [m |-> ConnectSequence[i], ev |-> 100 * MainThread + i,
     h |-> <<BaseHandler[1], BaseHandler[2] + i - 1>>, answered |-> TRUE]

Connected ==
    /\ connalive = TRUE
    /\ socket = 1
    /\ sockState = [s \in SockIds |-> IF s = 1 THEN "open" ELSE "none"]
    /\ sent = [i \in 1 .. 3 |-> ConnectCall(i)]
    /\ partial = <<>>
    /\ handlers = [h \in {ConnectCall(i).h : i \in 1 .. 3} |->
                     LET i == h[2] - BaseHandler[2] + 1
                     IN [ev |-> ConnectCall(i).ev, result |-> Val("ok", ConnectCall(i).ev)]]
    /\ curr_handler = Succ(ConnectCall(3).h)
    /\ recv_loop_t = 1
    /\ rstate = [r \in SockIds |-> IF r = 1 THEN "run" ELSE "none"]
    /\ lockOwner = 0
    /\ evSet = {ConnectCall(i).ev : i \in 1 .. 3}
    /\ stack = [t \in Threads |-> <<>>]
    /\ ret = [t \in Threads |-> IF t = MainThread THEN Returned("connect", PyTrue, 0)
                                                  ELSE NoRet]
    /\ ops = [t \in Users |-> IF t = MainThread THEN 1 ELSE 0]
    /\ nextSock = 1
    /\ nextEv = [t \in Threads |-> IF t = MainThread THEN 3 ELSE 0]
    /\ Quiet

InitReconnect ==
    /\ Connected
    /\ limit = [ops |-> 1, sock |-> MaxSockReconnect, req |-> 3 + MaxReqReconnect]

\* The application leaves the engine alone: the receive threads and the
\* reconnectors they start are the threads that run.
NextReconnect ==
    \/ \E t \in Reconnectors :
          \/ Call(t)
          \/ CallReconnected(t)
          \/ ConnectBegin(t)
          \/ ConnectJoin(t)
          \/ ConnectAttempt(t)
          \/ ConnectAlive(t)
          \/ ConnectAuthenticated(t)
          \/ ConnectApiSet(t)
          \/ ConnectDone(t)
          \/ Reconnector(t)
    \/ \E r \in SockIds : RecvExit(r) \/ RecvFrame(r) \/ RecvSpawn(r)
    \/ ServerReset

ReconnectSpec == InitReconnect /\ [][NextReconnect]_vars

\* The application calls connect() or call() once more while the server may
\* reset the connection: its connect(), or the inline reconnection of its
\* call(), and the connect() of a reconnector can overlap.
MaxOpsRace == 1
MaxSockRace == 3
MaxReqRace == 3

InitRace ==
    /\ Connected
    /\ limit = [ops |-> 1 + MaxOpsRace, sock |-> MaxSockRace, req |-> 3 + MaxReqRace]

\* The server resets the connection the engine had at the start, and keeps
\* the later ones.
FirstReset ==
    /\ socket = 1
    /\ ServerReset

ConnectSteps(t) ==
    \/ ConnectBegin(t)
    \/ ConnectJoin(t)
    \/ ConnectAttempt(t)
    \/ ConnectAlive(t)
    \/ ConnectAuthenticated(t)
    \/ ConnectApiSet(t)
    \/ ConnectDone(t)

NextRace ==
    \/ UserConnect(MainThread)
    \/ UserCall(MainThread)
    \/ ConnectSteps(MainThread)
    \/ Call(MainThread)
    \/ CallReconnected(MainThread)
    \/ \E t \in Reconnectors :
          Call(t) \/ CallReconnected(t) \/ ConnectSteps(t) \/ Reconnector(t)
    \/ \E r \in SockIds : RecvExit(r) \/ RecvFrame(r) \/ RecvSpawn(r)
    \/ FirstReset

RaceSpec == InitRace /\ [][NextRace]_vars

\* ------------------------------------------------------ the byte stream
\* The receive loop read recv by recv. A byte of the stream is the k-th byte
\* of a frame; a frame is an 8-byte prefix (size, handler) and its payload.
PrefixLen == 8
PayloadLen == 2
FrameLen == PrefixLen + PayloadLen

Bytes(frame) == [k \in 1 .. FrameLen |-> [frame |-> frame, k |-> k]]

\* What the server answers in these runs: a methodResponse, or a payload
\* that is not XML
StreamKinds == {"ok", "garbage"}

\* The handler no request has; the four bytes unpacked as the handler are
\* those of a prefix only when the eight bytes are a prefix (the reads are
\* contiguous), and the bytes of a payload are text, below 0x80.
NoHandler == <<0, 0>>

\* bs is the part of frame f from its byte number from on
IsPart(bs, f, from) == \A j \in 1 .. Len(bs) : bs[j] = [frame |-> f, k |-> from + j - 1]

\* struct.unpack('<IL', headerdata), line 203, of eight bytes: the size and
\* handler of the frame when they are its prefix, else whatever they spell.
Unpacked(bs) ==
    IF IsPart(bs, bs[1].frame, 1)
    THEN {[size |-> PayloadLen, h |-> bs[1].frame.h, frame |-> bs[1].frame]}
    ELSE {[size |-> n, h |-> NoHandler, frame |-> bs[1].frame] : n \in 0 .. FrameLen}

\* xmlrpc.client.loads(packetdata), line 210, and the handlers of lines
\* 211-218: the frame's payload decodes as the frame does; anything else is
\* not a document (ExpatError, line 215).
Loaded(head, bs) ==
    IF Len(bs) = PayloadLen /\ head.h = head.frame.h /\ IsPart(bs, head.frame, PrefixLen + 1)
    THEN Decoded(head.frame)
    ELSE PyFalse

Min(a, b) == IF a < b THEN a ELSE b

\* Two application threads wait for the results of their calls on a
\* connected engine; the server has written both responses.
StreamCall(t) ==
    [CallFrame("Ping", FALSE) EXCEPT !.pc = "wait", !.ev = 100 * t + 1,
                                     !.nh = IF t = 1 THEN BaseHandler ELSE Succ(BaseHandler)]

StreamResponse(t, k) == [h |-> StreamCall(t).nh, kind |-> k, req |-> StreamCall(t).ev]

InitStream ==
    /\ connalive = TRUE
    /\ socket = 1
    /\ sockState = [s \in SockIds |-> IF s = 1 THEN "open" ELSE "none"]
    /\ sent = [t \in 1 .. 2 |-> [m |-> "Ping", ev |-> StreamCall(t).ev,
                                  h |-> StreamCall(t).nh, answered |-> TRUE]]
    /\ partial = <<>>
    /\ handlers = [h \in {StreamCall(1).nh, StreamCall(2).nh} |->
                     [ev |-> IF h = StreamCall(1).nh THEN StreamCall(1).ev
                                                      ELSE StreamCall(2).ev,
                      result |-> PyNone]]
    /\ curr_handler = Succ(Succ(BaseHandler))
    /\ recv_loop_t = 1
    /\ rstate = [r \in SockIds |-> IF r = 1 THEN "run" ELSE "none"]
    /\ lockOwner = 0
    /\ evSet = {}
    /\ stack = [t \in Threads |-> IF t \in 1 .. 2 THEN <<StreamCall(t)>> ELSE <<>>]
    /\ ret = [t \in Threads |-> NoRet]
    /\ ops = [t \in Users |-> 1]
    /\ nextSock = 1
    /\ nextEv = [t \in Threads |-> IF t \in 1 .. 2 THEN 1 ELSE 0]
    /\ \E k1 \in StreamKinds : \E k2 \in StreamKinds :
          wire = Bytes(StreamResponse(1, k1)) \o Bytes(StreamResponse(2, k2))
    /\ rbuf = <<>>
    /\ hdr = <<>>
    /\ callbacks = NoCallbacks
    /\ invoked = <<>>
    /\ spawned = {}
    /\ NoTracker
    /\ NoParser
    /\ limit = [ops |-> 1, sock |-> 1, req |-> 2]

\* Some of the bytes the server has written reach the socket.
ServerBytes ==
    /\ sockState[socket] = "open"
    /\ \E n \in 1 .. Len(wire) :
        /\ rbuf' = rbuf \o SubSeq(wire, 1, n)
        /\ wire' = SubSeq(wire, n + 1, Len(wire))
    /\ UNCHANGED <<connalive, socket, sockState, sent, partial, handlers, curr_handler,
                   recv_loop_t, rstate, lockOwner, evSet, stack, ret, ops, nextSock,
                   nextEv, hdr, limit, dispatchVars, trackerVars, parserVars>>

\* The server closes the connection; what it had not sent never arrives.
ServerClose ==
    /\ sockState[socket] = "open"
    /\ sockState' = [sockState EXCEPT ![socket] = "eof"]
    /\ wire' = <<>>
    /\ UNCHANGED <<connalive, socket, sent, partial, handlers, curr_handler,
                   recv_loop_t, rstate, lockOwner, evSet, stack, ret, ops, nextSock,
                   nextEv, rbuf, hdr, limit, dispatchVars, trackerVars, parserVars>>

\* A turn of the loop up to line 203. recv(8) on the non-blocking socket
\* returns the bytes that are there, eight at most. With fewer than eight
\* struct.unpack raises struct.error, which line 228 passes over: the bytes
\* are gone. (With none there recv raises BlockingIOError, or returns b''
\* at the end of the stream: line 228 again, nothing changes.)
RecvHeader(r) ==
    /\ rstate[r] = "run"
    /\ connalive
    /\ lockOwner = 0
    /\ rbuf # <<>>
    /\ LET n == Min(PrefixLen, Len(rbuf)) IN
        /\ rbuf' = SubSeq(rbuf, n + 1, Len(rbuf))
        /\ IF n < PrefixLen
           THEN UNCHANGED <<hdr, rstate, lockOwner>>
           ELSE /\ \E head \in Unpacked(SubSeq(rbuf, 1, n)) : hdr' = <<head>>
                /\ rstate' = [rstate EXCEPT ![r] = "payload"]
                /\ lockOwner' = RecvId(r)
    /\ UNCHANGED <<connalive, socket, sockState, sent, partial, handlers, curr_handler,
                   recv_loop_t, evSet, stack, ret, ops, nextSock, nextEv, wire, limit,
                   dispatchVars, trackerVars, parserVars>>

\* Lines 204-218 and 231-233. recv(size) on the blocking socket waits for
\* one byte, or for the end of the stream, and returns the bytes that are
\* there, size at most; recv(0) returns b'' at once.
RecvBody(r) ==
    /\ rstate[r] = "payload"
    /\ hdr # <<>>
    /\ rbuf # <<>> \/ hdr[1].size = 0 \/ sockState[socket] = "eof"
    /\ LET n == Min(hdr[1].size, Len(rbuf)) IN
        /\ rbuf' = SubSeq(rbuf, n + 1, Len(rbuf))
        /\ NotifyResult(hdr[1].h, Loaded(hdr[1], SubSeq(rbuf, 1, n)))
    /\ hdr' = <<>>
    /\ rstate' = [rstate EXCEPT ![r] = "run"]
    /\ lockOwner' = 0
    /\ UNCHANGED <<connalive, socket, sockState, sent, partial, curr_handler,
                   recv_loop_t, stack, ret, ops, nextSock, nextEv, wire, limit,
                   dispatchVars, trackerVars, parserVars>>

NextStream ==
    \/ \E t \in Users : CallResult(t) \/ CallTimeout(t)
    \/ \E r \in SockIds : RecvHeader(r) \/ RecvBody(r)
    \/ ServerBytes
    \/ ServerClose

StreamSpec == InitStream /\ [][NextStream]_vars

\* ------------------------------------------------------- the callbacks
\* The server's callback frames and their subscribers.
MaxSubs == 3
MaxFrames == 2

\* the method the application subscribes to by name (cli.py:570,
\* state.py:28) and the wildcard (cli.py:566)
CallbackMethod == "ManiaPlanet.PlayerChat"
Wildcard == "*"

\* A function that is registered: it is run on a thread of its own or on
\* the receive thread, and there it returns or raises an Exception.
Subscribers(id) ==
    {[id |-> id, async |-> TRUE, raises |-> FALSE],
     [id |-> id, async |-> FALSE, raises |-> FALSE],
     [id |-> id, async |-> FALSE, raises |-> TRUE]}

Registered(method) == IF method \in DOMAIN callbacks THEN callbacks[method] ELSE <<>>

NumSubs == Len(Registered(CallbackMethod)) + Len(Registered(Wildcard))

Dispatching == \E r \in SockIds : rstate[r] = "dispatch"

\* registerCallback, lines 384-395
RegisterCallback(t) ==
    /\ t \in Users
    /\ NumSubs < MaxSubs
    /\ ~Dispatching
    /\ \E method \in {CallbackMethod, Wildcard} : \E cb \in Subscribers(NumSubs + 1) :
        callbacks' = (method :> Append(Registered(method), cb)) @@ callbacks
    /\ UNCHANGED <<connalive, socket, sockState, sent, partial, handlers, curr_handler,
                   recv_loop_t, rstate, lockOwner, evSet, stack, ret, ops, nextSock,
                   nextEv, limit, streamVars, invoked, spawned, trackerVars, parserVars>>

\* The invocations _handle_result makes for a callback frame, lines 165-175:
\* the subscribers of the method with the frame's arguments, then those of
\* "*" with the method put before the arguments. An invocation carries the
\* frame's number, its place among the frame's invocations and their count.
Invocation(frame, k, n, cb, args) ==
    [frame |-> frame.a, pos |-> k, of |-> n, sub |-> cb, args |-> args]

ToInvoke(frame) ==
    LET exact == Registered(frame.m)
        any == Registered(Wildcard)
        n == Len(exact) + Len(any)
    IN [k \in 1 .. n |->
          IF k <= Len(exact)
          THEN Invocation(frame, k, n, exact[k], <<frame.a>>)
          ELSE Invocation(frame, k, n, any[k - Len(exact)], <<frame.m, frame.a>>)]

\* The callback frames the server sends, numbered by their argument
InitDispatch ==
    /\ connalive = TRUE
    /\ socket = 1
    /\ sockState = [s \in SockIds |-> IF s = 1 THEN "open" ELSE "none"]
    /\ sent = <<>>
    /\ partial = <<>>
    /\ handlers = EmptyTable
    /\ curr_handler = BaseHandler
    /\ recv_loop_t = 1
    /\ rstate = [r \in SockIds |-> IF r = 1 THEN "run" ELSE "none"]
    /\ lockOwner = 0
    /\ evSet = {}
    /\ stack = [t \in Threads |-> <<>>]
    /\ ret = [t \in Threads |-> NoRet]
    /\ ops = [t \in Users |-> 0]
    /\ nextSock = 1
    /\ nextEv = [t \in Threads |-> 0]
    /\ wire = [n \in 1 .. MaxFrames |-> [m |-> CallbackMethod, a |-> n]]
    /\ rbuf = <<>>
    /\ hdr = <<>>
    /\ callbacks = NoCallbacks
    /\ invoked = <<>>
    /\ spawned = {}
    /\ NoTracker
    /\ NoParser
    /\ limit = [ops |-> 1, sock |-> 1, req |-> 1]

\* the dispatch of a frame ends: _handle_result returns, lines 231-233
DispatchEnds(r) ==
    /\ hdr' = <<>>
    /\ rstate' = [rstate EXCEPT ![r] = "run"]
    /\ lockOwner' = 0

\* an Exception of a subscriber that ends the receive thread
RaisedEndsLoop(r) ==
    /\ hdr' = <<>>
    /\ rstate' = [rstate EXCEPT ![r] = "crashed"]
    /\ lockOwner' = 0

\* The Exception of a subscriber leaves the loops of lines 167-175 and is
\* logged at lines 176-177
SubscriberRaised(r) == DispatchEnds(r)

\* A turn of the loop that reads a callback frame, lines 196-211 and 162-166
RecvCallback(r) ==
    /\ rstate[r] = "run"
    /\ CanRead
    /\ wire # <<>>
    /\ wire' = Tail(wire)
    /\ LET q == ToInvoke(Head(wire)) IN
        IF q = <<>>
        THEN UNCHANGED <<hdr, rstate, lockOwner>>
        ELSE /\ hdr' = <<[queue |-> q]>>
             /\ rstate' = [rstate EXCEPT ![r] = "dispatch"]
             /\ lockOwner' = RecvId(r)
    /\ UNCHANGED <<connalive, socket, sockState, sent, partial, handlers, curr_handler,
                   recv_loop_t, evSet, stack, ret, ops, nextSock, nextEv, rbuf, limit,
                   dispatchVars, trackerVars, parserVars>>

\* __perform_callback for the next subscriber, lines 140-147
PerformCallback(r) ==
    /\ rstate[r] = "dispatch"
    /\ LET x == Head(hdr[1].queue)
           rest == Tail(hdr[1].queue)
       IN /\ IF x.sub.async
             THEN /\ spawned' = spawned \cup {x}
                  /\ UNCHANGED invoked
             ELSE /\ invoked' = Append(invoked, x)
                  /\ UNCHANGED spawned
          /\ IF ~x.sub.async /\ x.sub.raises
             THEN SubscriberRaised(r)
             ELSE IF rest = <<>>
             THEN DispatchEnds(r)
             ELSE /\ hdr' = <<[queue |-> rest]>>
                  /\ UNCHANGED <<rstate, lockOwner>>
    /\ UNCHANGED <<connalive, socket, sockState, sent, partial, handlers, curr_handler,
                   recv_loop_t, evSet, stack, ret, ops, nextSock, nextEv, wire, rbuf,
                   limit, callbacks, trackerVars, parserVars>>

\* A thread started at line 144 runs its subscriber
RunCallback ==
    /\ \E x \in spawned :
        /\ invoked' = Append(invoked, x)
        /\ spawned' = spawned \ {x}
    /\ UNCHANGED <<connalive, socket, sockState, sent, partial, handlers, curr_handler,
                   recv_loop_t, rstate, lockOwner, evSet, stack, ret, ops, nextSock,
                   nextEv, limit, streamVars, callbacks, trackerVars, parserVars>>

NextDispatch ==
    \/ Call(MainThread)
    \/ UserCall(MainThread)
    \/ RegisterCallback(MainThread)
    \/ \E r \in SockIds : RecvFrame(r) \/ RecvCallback(r) \/ PerformCallback(r)
    \/ RunCallback

DispatchSpec == InitDispatch /\ [][NextDispatch]_vars

\* ------------------------------------------------ the game-state tracker
\* GameStateTracker, state.py. Its subscribers are registered synchronous
\* (state.py lines 28-40): they run on the receive thread, inside the turn
\* of _result_loop that holds socketlock. Logins are numbers.
NumLogins == 2
MaxEvents == 3
Logins == 1 .. NumLogins

\* GetPlayerList(50, index, 0) and index += 51, state.py lines 45 and 51
PageSize == 50
PageStep == 51

RosterMethods == {"PlayerConnect", "PlayerDisconnect", "PlayerInfoChanged"}

Range(q) == {q[i] : i \in DOMAIN q}

\* thread t is inside `with self.playersLock` of initialize()
PlayersLockHeldBy(t) ==
    \E k \in DOMAIN stack[t] : stack[t][k].op = "initialize" /\ stack[t][k].pc # "begin"

PlayersLockFree == \A t \in Threads : ~PlayersLockHeldBy(t)

\* the callback frames the server has sent that the tracker has not processed
Pending == Len(wire) + (IF hdr = <<>> THEN 0 ELSE 1)

\* The server sends a callback.
ServerCallback ==
    /\ Len(events) + Pending < limit.events
    /\ \E m \in limit.methods : \E l \in Logins :
          wire' = Append(wire, [m |-> m, login |-> l])
    /\ UNCHANGED <<connalive, socket, sockState, sent, partial, handlers, curr_handler,
                   recv_loop_t, rstate, lockOwner, evSet, stack, ret, ops, nextSock,
                   nextEv, limit, rbuf, hdr, dispatchVars, trackerVars, parserVars>>

\* A turn of the receive loop that reads a callback frame for the tracker:
\* gbxremote.py lines 196-211 and 162-168, the socket lock taken at line 197.
RecvTrackerCallback(r) ==
    /\ rstate[r] = "run"
    /\ CanRead
    /\ wire # <<>>
    /\ wire' = Tail(wire)
    /\ hdr' = <<Head(wire)>>
    /\ rstate' = [rstate EXCEPT ![r] = "dispatch"]
    /\ lockOwner' = RecvId(r)
    /\ UNCHANGED <<connalive, socket, sockState, sent, partial, handlers, curr_handler,
                   recv_loop_t, evSet, stack, ret, ops, nextSock, nextEv, limit, rbuf,
                   dispatchVars, trackerVars, parserVars>>

\* the receive thread r is about to run the tracker's subscriber of method m
Handling(r, m) ==
    /\ rstate[r] = "dispatch"
    /\ hdr # <<>>
    /\ hdr[1].m = m

\* what a subscriber leaves alone in the engine
HandlerFrame ==
    UNCHANGED <<connalive, socket, sockState, sent, partial, handlers, curr_handler,
                recv_loop_t, evSet, stack, ret, ops, nextSock, nextEv, limit, wire, rbuf,
                dispatchVars, srvRoster, held, maxChatLines, parserVars>>

\* state.py lines 54-57
OnPlayerConnect(r) ==
    /\ Handling(r, "PlayerConnect")
    /\ PlayersLockFree
    /\ players' = IF hdr[1].login \in Range(players) THEN players
                  ELSE Append(players, hdr[1].login)
    /\ events' = Append(events, hdr[1])
    /\ DispatchEnds(r)
    /\ HandlerFrame
    /\ UNCHANGED <<playersCache, heap, chat, chatLock, matchStart>>

\* list.remove: the first occurrence of x goes
RECURSIVE Remove(_, _)
Remove(q, x) ==
    IF q = <<>> THEN <<>>
    ELSE IF Head(q) = x THEN Tail(q)
    ELSE <<Head(q)>> \o Remove(Tail(q), x)

\* state.py lines 59-66
OnPlayerDisconnect(r) ==
    /\ Handling(r, "PlayerDisconnect")
    /\ PlayersLockFree
    /\ players' = IF hdr[1].login \in Range(players) THEN Remove(players, hdr[1].login)
                  ELSE players
    /\ events' = Append(events, hdr[1])
    /\ DispatchEnds(r)
    /\ HandlerFrame
    /\ UNCHANGED <<playersCache, heap, chat, chatLock, matchStart>>

\* A player record the server sends: a new dict, from the roster ("list")
\* or from PlayerInfoChanged ("info")
PlayerInfo(l, v) == [Login |-> l, v |-> v]

\* state.py lines 106-110
OnPlayerInfoChanged(r) ==
    /\ Handling(r, "PlayerInfoChanged")
    /\ PlayersLockFree
    /\ players' = IF hdr[1].login \in Range(players) THEN players
                  ELSE Append(players, hdr[1].login)
    /\ heap' = Append(heap, PlayerInfo(hdr[1].login, "info"))
    /\ playersCache' = (hdr[1].login :> Len(heap) + 1) @@ playersCache
    /\ events' = Append(events, hdr[1])
    /\ DispatchEnds(r)
    /\ HandlerFrame
    /\ UNCHANGED <<chat, chatLock, matchStart>>

\* initialize(), state.py lines 42-52
InitializeFrame == Frame("initialize", "begin", "", FALSE, 0)

\* uicontroller.py line 87
UserInitialize(t) ==
    /\ t = MainThread
    /\ Start(t, InitializeFrame)
    /\ UNCHANGED <<connalive, socket, sockState, sent, partial, handlers, curr_handler,
                   recv_loop_t, rstate, lockOwner, evSet, nextSock, nextEv>>
    /\ UNCHANGED <<limit, streamVars, dispatchVars, trackerVars, parserVars>>

\* lines 43-45: the lock is taken (no subscriber holds it between the steps
\* of the receive thread) and the first page is asked for
InitializeBegin(t) ==
    /\ Running(t, "initialize", "begin")
    /\ Invocations < limit.req
    /\ Invoke(t, "page", NewCall(t, "GetPlayerList", TRUE))
    /\ nextEv' = [nextEv EXCEPT ![t] = @ + 1]
    /\ UNCHANGED <<connalive, socket, sockState, sent, partial, handlers, curr_handler,
                   recv_loop_t, rstate, lockOwner, evSet, ops, nextSock>>
    /\ UNCHANGED <<limit, streamVars, dispatchVars, trackerVars, parserVars>>

\* What the server answers to GetPlayerList(PageSize, index, 0)
Page(index) ==
    SubSeq(srvRoster, index + 1,
           IF index + PageSize < Len(srvRoster) THEN index + PageSize ELSE Len(srvRoster))

\* the records of a page are new dicts on the heap, and the cache points
\* at them (lines 47-49)
CachePage(page) ==
    [l \in Range(page) \cup DOMAIN playersCache |->
        IF l \in Range(page)
        THEN Len(heap) + (CHOOSE i \in DOMAIN page : page[i] = l)
        ELSE playersCache[l]]

\* lines 46-52: call() has returned a page
InitializePage(t) ==
    /\ Running(t, "initialize", "page")
    /\ LET page == IF ret[t].val.kind = "ok" THEN Page(Top(t).index) ELSE <<>> IN
       IF page # <<>>
       THEN /\ Invocations < limit.req
            /\ players' = players \o page
            /\ heap' = heap \o [i \in DOMAIN page |-> PlayerInfo(page[i], "list")]
            /\ playersCache' = CachePage(page)
            /\ events' = events \o [i \in DOMAIN page |->
                                     [m |-> "GetPlayerList", login |-> page[i]]]
            /\ stack' = [stack EXCEPT ![t] =
                   Append(ReplaceTop(@, [Top(t) EXCEPT !.index = @ + PageStep]),
                          NewCall(t, "GetPlayerList", TRUE))]
            /\ ret' = [ret EXCEPT ![t] = NoRet]
            /\ nextEv' = [nextEv EXCEPT ![t] = @ + 1]
       ELSE /\ ReturnValue(t, Returned("initialize", PyNone, 0))
            /\ UNCHANGED <<players, heap, playersCache, events, nextEv>>
    /\ UNCHANGED <<connalive, socket, sockState, sent, partial, handlers, curr_handler,
                   recv_loop_t, rstate, lockOwner, evSet, ops, nextSock>>
    /\ UNCHANGED <<limit, streamVars, dispatchVars, chat, chatLock, maxChatLines,
                   matchStart, srvRoster, held, parserVars>>

\* the rosters the server may hold: the logins in some order, none twice
RECURSIVE Rosters(_)
Rosters(S) ==
    {<<>>} \cup UNION {{<<l>> \o q : q \in Rosters(S \ {l})} : l \in S}

\* connect() has returned True on the main thread with the callbacks
\* enabled: the three requests of connect() are answered, the receive
\* thread runs, nothing is on the wire.
ConnectedEngine ==
    /\ connalive = TRUE
    /\ socket = 1
    /\ sockState = [s \in SockIds |-> IF s = 1 THEN "open" ELSE "none"]
    /\ sent = [i \in 1 .. 3 |-> ConnectCall(i)]
    /\ partial = <<>>
    /\ handlers = [h \in {ConnectCall(i).h : i \in 1 .. 3} |->
                     LET i == h[2] - BaseHandler[2] + 1
                     IN [ev |-> ConnectCall(i).ev, result |-> Val("ok", ConnectCall(i).ev)]]
    /\ curr_handler = Succ(ConnectCall(3).h)
    /\ recv_loop_t = 1
    /\ rstate = [r \in SockIds |-> IF r = 1 THEN "run" ELSE "none"]
    /\ lockOwner = 0
    /\ evSet = {ConnectCall(i).ev : i \in 1 .. 3}
    /\ stack = [t \in Threads |-> <<>>]
    /\ ret = [t \in Threads |-> IF t = MainThread THEN Returned("connect", PyTrue, 0)
                                                  ELSE NoRet]
    /\ ops = [t \in Users |-> IF t = MainThread THEN 1 ELSE 0]
    /\ nextSock = 1
    /\ nextEv = [t \in Threads |-> IF t = MainThread THEN 3 ELSE 0]
    /\ wire = <<>>
    /\ rbuf = <<>>
    /\ hdr = <<>>
    /\ callbacks = NoCallbacks
    /\ invoked = <<>>
    /\ spawned = {}
    /\ NoParser

\* The tracker is constructed (uicontroller.py line 27), connect() has
\* returned True with the callbacks enabled (line 59), and the main thread
\* is about to call initialize() (line 87).
InitTracker ==
    /\ ConnectedEngine
    /\ players = <<>>
    /\ playersCache = NoCache
    /\ heap = <<>>
    /\ chat = <<>>
    /\ chatLock = 0
    /\ maxChatLines = DefaultChatLines
    /\ matchStart = 0
    /\ srvRoster \in Rosters(Logins)
    /\ events = <<>>
    /\ held = {}
    /\ limit = [ops |-> 2, sock |-> 1, req |-> 3 + 2, events |-> MaxEvents,
                methods |-> RosterMethods]

NextTracker ==
    \/ UserInitialize(MainThread)
    \/ InitializeBegin(MainThread)
    \/ InitializePage(MainThread)
    \/ Call(MainThread)
    \/ ServerCallback
    \/ \E r \in SockIds :
          \/ RecvFrame(r)
          \/ RecvTrackerCallback(r)
          \/ OnPlayerConnect(r)
          \/ OnPlayerDisconnect(r)
          \/ OnPlayerInfoChanged(r)

TrackerSpec == InitTracker /\ [][NextTracker]_vars

\* The roster enumeration alone: the server holds P players, logins 1 .. P
\* at positions 0 .. P-1, and sends no callback.
MaxPlayers == 52
MaxPages == 3

InitPaging ==
    /\ ConnectedEngine
    /\ players = <<>>
    /\ playersCache = NoCache
    /\ heap = <<>>
    /\ chat = <<>>
    /\ chatLock = 0
    /\ maxChatLines = DefaultChatLines
    /\ matchStart = 0
    /\ srvRoster \in {[i \in 1 .. P |-> i] : P \in 0 .. MaxPlayers}
    /\ events = <<>>
    /\ held = {}
    /\ limit = [ops |-> 2, sock |-> 1, req |-> 3 + MaxPages, events |-> 0,
                methods |-> {}]

NextPaging ==
    \/ UserInitialize(MainThread)
    \/ InitializeBegin(MainThread)
    \/ InitializePage(MainThread)
    \/ Call(MainThread)
    \/ \E r \in SockIds : RecvFrame(r)

PagingSpec == InitPaging /\ [][NextPaging]_vars

\* ------------------------------------------------- chat and the queries
MaxChatLines == 2
MaxChatEvents == 4
MaxQueryEvents == 3
MaxReads == 2
MaxClock == 2

ChatMethods == {"PlayerChat", "PlayerConnect", "PlayerDisconnect", "PlayerInfoChanged",
                "BeginMatch"}

\* getPlayerByLogin, state.py lines 119-124: the object the cache holds for
\* the login (0 is None)
CachedRef(l) == IF l \in DOMAIN playersCache THEN playersCache[l] ELSE 0

\* a buffer that is never trimmed
Trimless(c, n) == c

\* a buffer that drops its newest line when it is over its size
TrimNewest(c, n) == IF Len(c) > n THEN SubSeq(c, 1, Len(c) - 1) ELSE c

\* self.chat = self.chat[1:] when the buffer is over its length, lines 78-79
Trimmed(c, n) == IF Len(c) > n THEN Tail(c) ELSE c

\* on_player_chat, lines 68-77: the chat lock is taken and the line appended
OnPlayerChatAppend(r) ==
    /\ Handling(r, "PlayerChat")
    /\ chatLock = 0
    /\ chatLock' = RecvId(r)
    /\ chat' = Append(chat, [login |-> hdr[1].login,
                             nickname |-> CachedRef(hdr[1].login),
                             message |-> Len(events) + 1])
    /\ HandlerFrame
    /\ UNCHANGED <<rstate, lockOwner, hdr, players, playersCache, heap, matchStart,
                   events>>

\* lines 78-79: the buffer is trimmed, the lock released, the subscriber returns
OnPlayerChatTrim(r) ==
    /\ rstate[r] = "dispatch"
    /\ chatLock = RecvId(r)
    /\ chat' = Trimmed(chat, maxChatLines)
    /\ chatLock' = 0
    /\ events' = Append(events, hdr[1])
    /\ DispatchEnds(r)
    /\ HandlerFrame
    /\ UNCHANGED <<players, playersCache, heap, matchStart>>

\* on_begin_match, lines 81-83: floor(time.time())
OnBeginMatch(r) ==
    /\ Handling(r, "BeginMatch")
    /\ \E now \in 1 .. MaxClock : matchStart' = now
    /\ events' = Append(events, hdr[1])
    /\ DispatchEnds(r)
    /\ HandlerFrame
    /\ UNCHANGED <<players, playersCache, heap, chat, chatLock>>

\* A query of the application thread t: it is in no call of the engine
Reads(t) ==
    /\ stack[t] = <<>>
    /\ ops[t] < limit.ops
    /\ ops' = [ops EXCEPT ![t] = @ + 1]
    /\ UNCHANGED <<connalive, socket, sockState, sent, partial, handlers, curr_handler,
                   recv_loop_t, rstate, lockOwner, evSet, stack, ret, nextSock, nextEv,
                   limit, streamVars, dispatchVars>>
    /\ UNCHANGED <<players, playersCache, chat, chatLock, maxChatLines, matchStart,
                   srvRoster, events, parserVars>>

\* getChat, lines 112-117: a new list of new dicts under the chat lock; the
\* 'name' of a line is the object on_player_chat stored
GetChat(t) ==
    /\ chatLock = 0
    /\ Reads(t)
    /\ held' = held \cup ({chat[i].nickname : i \in DOMAIN chat} \ {0})
    /\ UNCHANGED heap

\* getPlayerByLogin, lines 119-124
GetPlayerByLogin(t) ==
    /\ Reads(t)
    /\ \E l \in Logins : held' = held \cup ({CachedRef(l)} \ {0})
    /\ UNCHANGED heap

\* the roster logins that have no cache entry, in roster order
Uncached == SelectSeq(players, LAMBDA l : l \notin DOMAIN playersCache)

\* getPlayers, lines 134-144: a new list; a cached login gives the cache's
\* object, another login a new dict
GetPlayers(t) ==
    /\ PlayersLockFree
    /\ Reads(t)
    /\ heap' = heap \o [i \in DOMAIN Uncached |-> PlayerInfo(Uncached[i], "new")]
    /\ held' = held \cup {CachedRef(l) : l \in Range(players) \cap DOMAIN playersCache}
                    \cup {Len(heap) + i : i \in DOMAIN Uncached}

\* The application writes to a record a query has returned.
ReaderMutate(t) ==
    /\ stack[t] = <<>>
    /\ \E id \in held :
          /\ heap[id].v # "mutated"
          /\ heap' = [heap EXCEPT ![id].v = "mutated"]
    /\ UNCHANGED <<connalive, socket, sockState, sent, partial, handlers, curr_handler,
                   recv_loop_t, rstate, lockOwner, evSet, stack, ret, ops, nextSock,
                   nextEv, limit, streamVars, dispatchVars>>
    /\ UNCHANGED <<players, playersCache, chat, chatLock, maxChatLines, matchStart,
                   srvRoster, events, held, parserVars>>

\* The tracker is constructed with some maxChatLines and the engine is
\* connected.
ConstructedTracker ==
    /\ ConnectedEngine
    /\ players = <<>>
    /\ playersCache = NoCache
    /\ heap = <<>>
    /\ chat = <<>>
    /\ chatLock = 0
    /\ maxChatLines \in 0 .. MaxChatLines
    /\ matchStart = 0
    /\ srvRoster = <<>>
    /\ events = <<>>
    /\ held = {}

\* The server sends PlayerChat callbacks and the application reads the chat.
InitChat ==
    /\ ConstructedTracker
    /\ limit = [ops |-> 1 + MaxReads, sock |-> 1, req |-> 3, events |-> MaxChatEvents,
                methods |-> {"PlayerChat"}]

NextChat ==
    \/ ServerCallback
    \/ GetChat(MainThread)
    \/ \E r \in SockIds :
          \/ RecvTrackerCallback(r)
          \/ OnPlayerChatAppend(r)
          \/ OnPlayerChatTrim(r)

ChatSpec == InitChat /\ [][NextChat]_vars

\* The server sends the callbacks of the tracker, the application queries
\* and may write to what the queries have returned.
InitQuery ==
    /\ ConstructedTracker
    /\ limit = [ops |-> 1 + MaxReads, sock |-> 1, req |-> 3, events |-> MaxQueryEvents,
                methods |-> ChatMethods]

NextQuery ==
    \/ ServerCallback
    \/ GetChat(MainThread)
    \/ GetPlayerByLogin(MainThread)
    \/ GetPlayers(MainThread)
    \/ ReaderMutate(MainThread)
    \/ \E r \in SockIds :
          \/ RecvTrackerCallback(r)
          \/ OnPlayerChatAppend(r)
          \/ OnPlayerChatTrim(r)
          \/ OnPlayerConnect(r)
          \/ OnPlayerDisconnect(r)
          \/ OnPlayerInfoChanged(r)
          \/ OnBeginMatch(r)

QuerySpec == InitQuery /\ [][NextQuery]_vars

\* getPlayerByLogin(l) called by an application thread, step by step
\* (state.py lines 119-124): the frame is at "lock" before the `with`, at
\* "found" between the test of line 121 and the read of line 122, and at
\* "absent" after the `with` when the test was false.
PlayerByLoginFrame(l) ==
    [Frame("getPlayerByLogin", "lock", "", FALSE, 0) EXCEPT !.login = l]

\* thread t is inside `with self.playersCacheLock` of getPlayerByLogin
PlayersCacheLockHeldBy(t) ==
    \E k \in DOMAIN stack[t] :
        stack[t][k].op = "getPlayerByLogin" /\ stack[t][k].pc = "found"

UserGetPlayerByLogin(t) ==
    /\ t = MainThread
    /\ \E l \in Logins : Start(t, PlayerByLoginFrame(l))
    /\ UNCHANGED <<connalive, socket, sockState, sent, partial, handlers, curr_handler,
                   recv_loop_t, rstate, lockOwner, evSet, nextSock, nextEv>>
    /\ UNCHANGED <<limit, streamVars, dispatchVars, trackerVars, parserVars>>

\* lines 120-121: playersCacheLock is taken, `login in self.playersCache`;
\* a login that is absent leaves the `with`
PlayerByLoginTest(t) ==
    /\ Running(t, "getPlayerByLogin", "lock")
    /\ \A u \in Threads \ {t} : ~PlayersCacheLockHeldBy(u)
    /\ Goto(t, IF Top(t).login \in DOMAIN playersCache THEN "found" ELSE "absent")
    /\ UNCHANGED <<connalive, socket, sockState, sent, partial, handlers, curr_handler,
                   recv_loop_t, rstate, lockOwner, evSet, ret, ops, nextSock, nextEv>>
    /\ UNCHANGED <<limit, streamVars, dispatchVars, trackerVars, parserVars>>

\* line 122: the object the cache holds now is returned and the lock
\* released; line 124: None
PlayerByLoginReturn(t) ==
    /\ \/ /\ Running(t, "getPlayerByLogin", "found")
          /\ held' = held \cup {playersCache[Top(t).login]}
          /\ ReturnValue(t, Returned("getPlayerByLogin",
                                     Val("dict", playersCache[Top(t).login]), 0))
       \/ /\ Running(t, "getPlayerByLogin", "absent")
          /\ held' = held
          /\ ReturnValue(t, Returned("getPlayerByLogin", PyNone, 0))
    /\ UNCHANGED <<connalive, socket, sockState, sent, partial, handlers, curr_handler,
                   recv_loop_t, rstate, lockOwner, evSet, ops, nextSock, nextEv>>
    /\ UNCHANGED <<limit, streamVars, dispatchVars, parserVars>>
    /\ UNCHANGED <<players, playersCache, heap, chat, chatLock, maxChatLines, matchStart,
                   srvRoster, events>>

\* The server sends PlayerInfoChanged callbacks while the application
\* looks players up.
MaxCacheEvents == 2

InitCache ==
    /\ ConstructedTracker
    /\ limit = [ops |-> 1 + MaxReads, sock |-> 1, req |-> 3, events |-> MaxCacheEvents,
                methods |-> {"PlayerInfoChanged"}]

NextCache ==
    \/ ServerCallback
    \/ UserGetPlayerByLogin(MainThread)
    \/ PlayerByLoginTest(MainThread)
    \/ PlayerByLoginReturn(MainThread)
    \/ GetPlayers(MainThread)
    \/ \E r \in SockIds :
          \/ RecvTrackerCallback(r)
          \/ OnPlayerInfoChanged(r)

CacheSpec == InitCache /\ [][NextCache]_vars

\* A subscriber registered without threadAsync that makes a synchronous
\* call(): __perform_callback runs it on the receive thread (line 147),
\* inside the turn of _result_loop that holds socketlock. The server keeps
\* its connection. A turn of the loop that reads a callback frame, lines
\* 196-211, 162-168 and 147, up to the subscriber's invocation of call():
RecvInlineCallback(r) ==
    /\ rstate[r] = "run"
    /\ CanRead
    /\ wire # <<>>
    /\ Invocations < limit.req
    /\ wire' = Tail(wire)
    /\ hdr' = <<Head(wire)>>
    /\ rstate' = [rstate EXCEPT ![r] = "dispatch"]
    /\ lockOwner' = RecvId(r)
    /\ stack' = [stack EXCEPT ![RecvId(r)] = <<NewCall(RecvId(r), "Ping", TRUE)>>]
    /\ ret' = [ret EXCEPT ![RecvId(r)] = NoRet]
    /\ nextEv' = [nextEv EXCEPT ![RecvId(r)] = @ + 1]
    /\ UNCHANGED <<connalive, socket, sockState, sent, partial, handlers, curr_handler,
                   recv_loop_t, evSet, ops, nextSock, limit, rbuf, dispatchVars,
                   trackerVars, parserVars>>

\* The subscriber's call() has returned or raised: the subscriber returns,
\* or its Exception is logged at lines 176-177; _handle_result returns and
\* the turn ends, lines 231-233.
InlineCallbackEnds(r) ==
    /\ rstate[r] = "dispatch"
    /\ stack[RecvId(r)] = <<>>
    /\ ret[RecvId(r)] # NoRet
    /\ events' = Append(events, hdr[1])
    /\ DispatchEnds(r)
    /\ HandlerFrame
    /\ UNCHANGED <<players, playersCache, heap, chat, chatLock, matchStart>>

MaxInlineEvents == 2
MaxReqInline == 3

InitInline ==
    /\ ConnectedEngine
    /\ NoTracker
    /\ limit = [ops |-> 2, sock |-> 1, req |-> 3 + MaxReqInline,
                events |-> MaxInlineEvents, methods |-> {"PlayerChat"}]

NextInline ==
    \/ ServerCallback
    \/ UserCall(MainThread)
    \/ Call(MainThread)
    \/ \E r \in SockIds :
          \/ RecvFrame(r)
          \/ RecvInlineCallback(r)
          \/ Call(RecvId(r))
          \/ InlineCallbackEnds(r)

\* The receive thread is scheduled, and resultTimeout is finite: a step the
\* thread can take, in the subscriber's call() or at its end, is taken.
InlineSpec ==
    /\ InitInline
    /\ [][NextInline]_vars
    /\ \A r \in SockIds : WF_vars(Call(RecvId(r)) \/ InlineCallbackEnds(r))

\* ------------------------------------------------- the command parser
\* syntax.py. A command line is a sequence of characters (strings of length
\* one); positions are counted from 1, so position i here is Tokenizer.i + 1.
Digits == <<"0", "1", "2", "3", "4", "5", "6", "7", "8", "9">>
DigitChars == Range(Digits)
LetterChars ==
    {"a", "b", "c", "d", "e", "f", "g", "h", "i", "j", "k", "l", "m", "n", "o", "p", "q",
     "r", "s", "t", "u", "v", "w", "x", "y", "z",
     "A", "B", "C", "D", "E", "F", "G", "H", "I", "J", "K", "L", "M", "N", "O", "P", "Q",
     "R", "S", "T", "U", "V", "W", "X", "Y", "Z"}

\* WhitespaceToken.IsWhitespace, line 37: c <= ' '
WhitespaceChars == {" "}

\* IdentifierToken.IsValidChar, line 55
IsValidChar(c) == c \in LetterChars \cup {"."}

\* the python values of the toks and of the arguments, a record with one
\* field that names the type
PyInt(n) == [int |-> n]
PyFloat(neg, num) == [float |-> <<neg, num>>]
PyBool(b) == [bool |-> b]
PyStr(chars) == [str |-> chars]
PyList(elems) == [list |-> elems]
IsPy(v, type) == type \in DOMAIN v

Token(type) == [type |-> type]
ValueToken(type, value) == [type |-> type, value |-> value]

\* Tokenizer.hasNext, line 259: n is not used
HasNext(raw, i) == i <= Len(raw)

\* Tokenizer.peekForward, line 270: a slice, short at the end of the line
PeekForward(raw, i, n) ==
    SubSeq(raw, i, IF i + n - 1 <= Len(raw) THEN i + n - 1 ELSE Len(raw))

\* what a Parse of a token gives: the token and the position after it, or
\* an exception
Lexed(tok, i) == [ok |-> TRUE, tok |-> tok, i |-> i]
LexError == [ok |-> FALSE]

\* the end of the run of characters of a class that starts at position i
RECURSIVE RunEnd(_, _, _)
RunEnd(raw, i, class) ==
    IF HasNext(raw, i) /\ raw[i] \in class THEN RunEnd(raw, i + 1, class) ELSE i

\* int(num)
RECURSIVE IntOf(_)
IntOf(num) ==
    IF num = <<>> THEN 0
    ELSE 10 * IntOf(SubSeq(num, 1, Len(num) - 1))
         + (CHOOSE d \in 0 .. 9 : Digits[d + 1] = num[Len(num)])

\* NumberToken.Parse, lines 84-115
NumberParse(raw, i) ==
    LET neg == HasNext(raw, i) /\ raw[i] = "-"
        from == IF neg THEN i + 1 ELSE i
        to == RunEnd(raw, from, DigitChars \cup {"."})
        num == SubSeq(raw, from, to - 1)
        dots == Cardinality({k \in DOMAIN num : num[k] = "."})
    IN IF dots > 1 THEN LexError
       ELSE IF dots = 1 THEN Lexed(ValueToken("Number", PyFloat(neg, num)), to)
       ELSE Lexed(ValueToken("Number",
                             PyInt(IF neg THEN 0 - IntOf(num) ELSE IntOf(num))), to)

\* the loop of StringToken.Parse, lines 128-135: a quote ends the string
\* unless the character collected before it is a backslash
RECURSIVE StringLoop(_, _, _)
StringLoop(raw, i, str) ==
    IF ~HasNext(raw, i) THEN [i |-> i, s |-> str]
    ELSE IF raw[i] = "\"" /\ (str = <<>> \/ str[Len(str)] # "\\")
    THEN [i |-> i + 1, s |-> str]
    ELSE StringLoop(raw, i + 1, Append(str, raw[i]))

\* StringToken.Parse, lines 125-140; i is the position after the opening quote
StringParse(raw, i) ==
    LET r == StringLoop(raw, i, <<>>)
    IN IF ~HasNext(raw, r.i) /\ raw[Len(raw)] # "\""
       THEN LexError
       ELSE Lexed(ValueToken("String", PyStr(r.s)), r.i)

\* BooleanToken.Parse, lines 150-158, for the lower-case words Identify lets in
BooleanParse(raw, i) ==
    IF HasNext(raw, i) /\ PeekForward(raw, i, 4) = <<"t", "r", "u", "e">>
    THEN Lexed(ValueToken("Boolean", PyBool(TRUE)), i + 4)
    ELSE IF HasNext(raw, i) /\ PeekForward(raw, i, 5) = <<"f", "a", "l", "s", "e">>
    THEN Lexed(ValueToken("Boolean", PyBool(FALSE)), i + 5)
    ELSE LexError

\* IdentifierToken.Parse, lines 59-70
IdentifierParse(raw, i) ==
    LET to == RunEnd(raw, i, LetterChars \cup {"."})
    IN Lexed(ValueToken("Identifier", PyStr(SubSeq(raw, i, to - 1))), to)

\* TokenIdentifier.IsNumber, lines 186-192: peekForward(2)[1] is an
\* IndexError when '-' is the last character
IsNumberRaises(raw, i) == raw[i] = "-" /\ i = Len(raw)

IsNumber(raw, i) ==
    IF raw[i] = "-" THEN raw[i + 1] \in DigitChars ELSE raw[i] \in DigitChars

\* TokenIdentifier.IsBoolean, lines 213-218
IsBoolean(raw, i) ==
    \/ PeekForward(raw, i, 4) = <<"t", "r", "u", "e">>
    \/ PeekForward(raw, i, 5) = <<"f", "a", "l", "s", "e">>

\* TokenIdentifier.Identify, lines 165-183: the first detector that matches
Identify(raw, i) ==
    IF raw[i] \in WhitespaceChars THEN "Whitespace"
    ELSE IF IsNumberRaises(raw, i) THEN "IndexError"
    ELSE IF IsNumber(raw, i) THEN "Number"
    ELSE IF raw[i] = "\"" THEN "String"
    ELSE IF raw[i] = "[" THEN "ArrayStart"
    ELSE IF raw[i] = "]" THEN "ArrayEnd"
    ELSE IF raw[i] = "," THEN "ArraySeparator"
    ELSE IF IsBoolean(raw, i) THEN "Boolean"
    ELSE IF IsValidChar(raw[i]) THEN "Identifier"
    ELSE "Unknown"

\* one turn of the loop of Tokenizer.tokenize, lines 303-333
NextToken(raw, i) ==
    LET type == Identify(raw, i)
    IN IF type \in {"IndexError", "Unknown"} THEN LexError
       ELSE IF type = "Identifier" THEN IdentifierParse(raw, i)
       ELSE IF type = "Number" THEN NumberParse(raw, i)
       ELSE IF type = "String" THEN StringParse(raw, i + 1)
       ELSE IF type = "Boolean" THEN BooleanParse(raw, i)
       ELSE IF type = "Whitespace" THEN Lexed(ValueToken("Whitespace", PyStr(<<raw[i]>>)), i + 1)
       ELSE Lexed(Token(type), i + 1)

\* Tokenizer.tokenize, lines 296-333: self.tokens keeps what was lexed before
\* an exception
RECURSIVE TokenizeFrom(_, _, _)
TokenizeFrom(raw, i, toks) ==
    IF ~HasNext(raw, i) THEN [ok |-> TRUE, tokens |-> toks]
    ELSE LET t == NextToken(raw, i)
         IN IF t.ok THEN TokenizeFrom(raw, t.i, Append(toks, t.tok))
            ELSE [ok |-> FALSE, tokens |-> toks]

Tokenize(raw) == TokenizeFrom(raw, 1, <<>>)

\* what Parser._array gives: the list and the position after it, or an
\* exception
ParseError == [ok |-> FALSE]

\* Parser._array, lines 379-439: ArrayLoop is the while loop of lines 400-432
\* with its counter nelements
RECURSIVE ParseArray(_, _)
RECURSIVE ArrayLoop(_, _, _, _)
ArrayLoop(toks, i, nelements, arrayElements) ==
    IF i > Len(toks) THEN [ok |-> TRUE, i |-> i, v |-> arrayElements]
    ELSE LET type == toks[i].type
         IN IF type = "Whitespace"
            THEN ArrayLoop(toks, i + 1, nelements, arrayElements)
            ELSE IF nelements % 2 = 1 /\ type \notin {"ArraySeparator", "ArrayEnd"}
            THEN ParseError
            ELSE IF type = "ArraySeparator"
            THEN ArrayLoop(toks, i + 1, nelements + 1, arrayElements)
            ELSE IF type = "ArrayEnd"
            THEN [ok |-> TRUE, i |-> i, v |-> arrayElements]
            ELSE IF type = "ArrayStart"
            THEN LET sub == ParseArray(toks, i)
                 IN IF sub.ok
                    THEN ArrayLoop(toks, sub.i, nelements + 1,
                                   Append(arrayElements, sub.v))
                    ELSE ParseError
            ELSE ArrayLoop(toks, i + 1, nelements + 1,
                           Append(arrayElements, toks[i].value))

ParseArray(toks, i) ==
    IF i > Len(toks) THEN ParseError
    ELSE IF toks[i].type # "ArrayStart" THEN ParseError
    ELSE LET r == ArrayLoop(toks, i + 1, 0, <<>>)
         IN IF ~r.ok THEN ParseError
            ELSE IF r.i > Len(toks) THEN ParseError
            ELSE IF toks[r.i].type # "ArrayEnd" THEN ParseError
            ELSE [ok |-> TRUE, i |-> r.i + 1, v |-> PyList(r.v)]

\* what parse() gives
ParsedAs(command, args) == [kind |-> "ok", command |-> command, args |-> args]
ParseRaised == [kind |-> "raise"]

\* the loop of parse() over the arguments, lines 470-493
RECURSIVE ArgsLoop(_, _, _, _)
ArgsLoop(toks, i, command, args) ==
    IF i > Len(toks) THEN ParsedAs(command, args)
    ELSE LET type == toks[i].type
         IN IF type = "Whitespace" THEN ArgsLoop(toks, i + 1, command, args)
            ELSE IF type \in {"Unknown", "ArraySeparator", "ArrayEnd"} THEN ParseRaised
            ELSE IF type = "ArrayStart"
            THEN LET a == ParseArray(toks, i)
                 IN IF a.ok THEN ArgsLoop(toks, a.i, command, Append(args, a.v))
                    ELSE ParseRaised
            ELSE ArgsLoop(toks, i + 1, command, Append(args, toks[i].value))

\* Parser.parse, lines 441-495
Parse(raw) ==
    LET t == Tokenize(raw)
    IN IF ~t.ok THEN ParseRaised
       ELSE IF t.tokens = <<>> THEN ParseRaised
       ELSE IF t.tokens[1].type # "Identifier" THEN ParseRaised
       ELSE ArgsLoop(t.tokens, 2, t.tokens[1].value.str, <<>>)

\* The command lines. A value is written as the parser reads it: an
\* integer in decimal, true or false, a string between double quotes, an
\* array between brackets with commas between its elements.
MaxDepth == 2
MaxArrayLen == 2
MaxStrLen == 2
MaxBody == 7

SeqsUpTo(S, n) == UNION {[1 .. k -> S] : k \in 0 .. n}

RECURSIVE DigitsOf(_)
DigitsOf(n) ==
    IF n < 10 THEN <<Digits[n + 1]>>
    ELSE DigitsOf(n \div 10) \o <<Digits[(n % 10) + 1]>>

RECURSIVE Emit(_)
RECURSIVE EmitElements(_)
EmitElements(q) ==
    IF q = <<>> THEN <<>>
    ELSE IF Len(q) = 1 THEN Emit(q[1])
    ELSE Emit(q[1]) \o <<",">> \o EmitElements(Tail(q))

Emit(v) ==
    IF IsPy(v, "int")
    THEN (IF v.int < 0 THEN <<"-">> \o DigitsOf(0 - v.int) ELSE DigitsOf(v.int))
    ELSE IF IsPy(v, "bool")
    THEN (IF v.bool THEN <<"t", "r", "u", "e">> ELSE <<"f", "a", "l", "s", "e">>)
    ELSE IF IsPy(v, "str") THEN <<"\"">> \o v.str \o <<"\"">>
    ELSE <<"[">> \o EmitElements(v.list) \o <<"]">>

IntValues == {0 - 1, 0, 12}
StrChars == {"a", "\\"}

Atoms ==
    {PyInt(n) : n \in IntValues} \cup {PyBool(b) : b \in BOOLEAN}
    \cup {PyStr(chars) : chars \in SeqsUpTo(StrChars, MaxStrLen)}

RECURSIVE ValuesTo(_)
ValuesTo(depth) ==
    IF depth = 0 THEN Atoms
    ELSE Atoms \cup {PyList(q) : q \in SeqsUpTo(ValuesTo(depth - 1), MaxArrayLen)}

\* the line "m " followed by the text
MethodLine(text) == <<"m", " ">> \o text

\* the characters of the lines that hold brackets, separators and numbers
ArrayChars == {"[", "]", ",", "1", " "}

\* the characters of the lines that hold quotes and backslashes
MaxQuoted == 5
QuoteChars == {"\"", "a", "\\"}

\* the lines made of words: true, false, other letters, spaces
MaxWords == 3
Words == {<<"t", "r", "u", "e">>, <<"f", "a", "l", "s", "e">>, <<"i", "s", "h">>,
          <<"S">>, <<" ">>}

RECURSIVE Concat(_)
Concat(q) == IF q = <<>> THEN <<>> ELSE Head(q) \o Concat(Tail(q))

\* the characters of the lines that hold numbers, dots, separators and names
MaxMixed == 5
MixedChars == {"1", ".", ",", "f", "]", " "}

\* A command line has been entered (uicontroller.py line 144, cli.py line
\* 439): the written form of a value, or a line of a few characters
\* in some order: brackets and separators, quotes, words, numbers and dots.
InitParser ==
    /\ ConstructedEngine
    /\ QuietWire
    /\ NoTracker
    /\ \/ /\ emitted \in ValuesTo(MaxDepth)
          /\ rawCommand = MethodLine(Emit(emitted))
       \/ /\ emitted = NoValue
          /\ rawCommand \in
                {MethodLine(body) : body \in SeqsUpTo(ArrayChars, MaxBody)}
                \cup {MethodLine(body) : body \in SeqsUpTo(QuoteChars, MaxQuoted)}
                \cup {MethodLine(Concat(q)) : q \in SeqsUpTo(Words, MaxWords)}
                \cup SeqsUpTo(MixedChars, MaxMixed)
    /\ parsed = NotParsed
    /\ tokens = <<>>
    /\ limit = [ops |-> 0, sock |-> 0, req |-> 0]

\* parser.parse(), uicontroller.py lines 144-145
ParseCommand ==
    /\ parsed = NotParsed
    /\ tokens' = Tokenize(rawCommand).tokens
    /\ parsed' = Parse(rawCommand)
    /\ UNCHANGED <<connalive, socket, sockState, sent, partial, handlers, curr_handler,
                   recv_loop_t, rstate, lockOwner, evSet, stack, ret, ops, nextSock,
                   nextEv, limit, streamVars, dispatchVars, trackerVars, rawCommand,
                   emitted>>

NextParser == ParseCommand

ParserSpec == InitParser /\ [][NextParser]_vars

\* ------------------------------------------------------------- claims
\* The frames of call() on the stacks, as <<thread, position>>
CallFrames == {p \in Threads \X (1 .. 8) :
                  p[2] <= Len(stack[p[1]]) /\ stack[p[1]][p[2]].op = "call"}
FrameAt(p) == stack[p[1]][p[2]]
\* A request is in flight from the time its frame is written to the time its
\* caller stops waiting.
InFlight == {p \in CallFrames : FrameAt(p).pc = "wait"}
\* A value the server produced in answer to a request frame
IsResponse(v) == v.req # 0

\* C1: on a connected engine no two requests in flight have the same handle,
\* and a call() that returns a response returns the response to the frame it
\* wrote itself.
C1_OwnResponse ==
    /\ connalive =>
          \A p, q \in InFlight : p # q => FrameAt(p).nh # FrameAt(q).nh
    /\ \A t \in Threads :
          (ret[t].kind = "value" /\ ret[t].op = "call" /\ IsResponse(ret[t].val))
              => ret[t].val.req = ret[t].ev

\* C1, its second half alone: a returned response is the caller's own.
C1_NeverAnothersResponse ==
    \A t \in Threads :
        (ret[t].kind = "value" /\ ret[t].op = "call" /\ IsResponse(ret[t].val))
            => ret[t].val.req = ret[t].ev

\* C2: the handler table is empty whenever no call() is running.
C2_TableEmptyWhenIdle ==
    CallFrames = {} => DOMAIN handlers = {}

\* C3: a call() the application has started eventually returns or raises.
C3_CallResolves ==
    \A t \in Users :
        (Len(stack[t]) = 1 /\ stack[t][1].op = "call") ~> (stack[t] = <<>>)

\* C4: for requests made one after another, the allocator returns the
\* counter, which starts at 0x80000000 after every reset, goes up by one with
\* each request and from 0xffffffff back to 0x80000000; no handle is below
\* 0x80000000. (Requests that overlap in _next_handler are the matter of C1.)
C4_Allocator ==
    [][\A t \in Users :
          /\ (Running(t, "call", "alloc") /\ Running(t, "call", "send")') =>
                /\ Top(t)'.nh = curr_handler
                /\ ~BelowBase(Top(t)'.nh)
                /\ ~Above32Bits(Top(t)'.nh)
                /\ curr_handler' = IF curr_handler = LastHandler
                                   THEN BaseHandler ELSE Succ(curr_handler)
          /\ (Running(t, "connect", "attempt")' /\ ~Running(t, "connect", "attempt")) =>
                curr_handler' = BaseHandler]_vars

\* The handle 0xffffffff has been given out and the counter is back at 0x80000000.
C4_Wrapped ==
    /\ curr_handler = BaseHandler
    /\ \E p \in CallFrames : FrameAt(p).pc = "wait" /\ FrameAt(p).nh = LastHandler

\* The methods of the frames written on the current socket, in order
RECURSIVE MethodsOf(_)
MethodsOf(q) == IF q = <<>> THEN <<>> ELSE <<q[1].m>> \o MethodsOf(Tail(q))
IsPrefix(a, b) == Len(a) <= Len(b) /\ SubSeq(b, 1, Len(a)) = a

\* C5: the frames written on a socket begin with Authenticate, SetApiVersion
\* and EnableCallbacks in that order, and connect() returns true only when
\* the three have been written.
C5_AuthenticateFirst ==
    /\ \/ IsPrefix(MethodsOf(sent), ConnectSequence)
       \/ IsPrefix(ConnectSequence, MethodsOf(sent))
    /\ \A t \in Threads :
          (ret[t].op = "connect" /\ ret[t].val.kind = "true")
              => IsPrefix(ConnectSequence, MethodsOf(sent))

\* What _authenticate takes for a refusal: False or a Fault
Refusal(v) == v.kind \in {"false", "fault"}

\* C6: a connect() whose Authenticate call comes back with a Fault or with
\* false returns false with the alive flag false; the flag becomes true
\* only in a connect() that has opened a socket; and a call() that finds
\* the flag false raises the no-connection error and writes nothing.
C6_RefusedLeavesDisconnected ==
    [][\A t \in Threads :
          /\ (Running(t, "connect", "auth_ret") /\ Refusal(ret[t].val)
                 /\ stack'[t] # stack[t]) =>
                /\ ret'[t] = Returned("connect", PyFalse, 0)
                /\ ~connalive'
          /\ (Running(t, "call", "check") /\ ~connalive /\ stack'[t] # stack[t]) =>
                /\ ret'[t] = Raised("call", "NoConnection", Top(t).ev)
                /\ stack'[t] = <<>>
                /\ sent' = sent
          /\ (~connalive /\ connalive') =>
                \E u \in Threads : Running(u, "connect", "alive")]_vars

\* Authenticate was refused on an open socket, connect() has returned and
\* the call() after it has raised the no-connection error.
C6_RefusedThenNoConnection ==
    /\ ~connalive
    /\ socket # 0
    /\ sockState[socket] = "open"
    /\ MethodsOf(sent) = <<"Authenticate">>
    /\ BaseHandler \in DOMAIN handlers
    /\ Refusal(handlers[BaseHandler].result)
    /\ ret[MainThread].kind = "raise"
    /\ ret[MainThread].val.kind = "NoConnection"

\* The engine holds no connection: self.socket is None, or names a socket
\* whose connection is gone. (No line of the engine closes a socket.)
NoConnectionHeld == socket = 0 \/ sockState[socket] \in {"unconn", "reset"}

\* C7: when connect() returns false because Authenticate was refused, the
\* socket is closed, the handler table is empty and no receive thread is
\* registered.
C7_RefusedConnectResets ==
    [][\A t \in Threads :
          (Running(t, "connect", "auth_ret") /\ Refusal(ret[t].val)
              /\ stack'[t] # stack[t]) =>
             /\ NoConnectionHeld'
             /\ handlers' = EmptyTable
             /\ recv_loop_t' = 0]_vars

\* Thread t, in connect(), makes an attempt that meets a header outside
\* validHeaders.
InvalidHeaderStep(t) ==
    /\ Running(t, "connect", "attempt")
    /\ stack'[t] # stack[t]
    /\ sockState'[socket'] = "badhdr"

\* C8: a header outside the allowlist ends the connect() invocation: it
\* returns false, nothing has been written on the socket, the engine has not
\* become connected and no further attempt is started, whatever maxretries.
C8_InvalidHeaderAborts ==
    [][\A t \in Threads :
          InvalidHeaderStep(t) =>
             /\ sent' = <<>>
             /\ connalive' = connalive
             /\ ret'[t] = Returned("connect", PyFalse, 0)
             /\ ~Running(t, "connect", "attempt")']_vars

\* C8 as the code has it: a header outside the allowlist fails the attempt,
\* nothing written and the alive flag untouched; connect() returns false if
\* maxretries >= 0 and the attempts made have reached maxretries, and
\* otherwise goes on to the next attempt.
C8_InvalidHeaderFailsAttempt ==
    [][\A t \in Threads :
          InvalidHeaderStep(t) =>
             /\ sent' = <<>>
             /\ connalive' = connalive
             /\ IF Top(t).maxretries >= 0 /\ Top(t).retries >= Top(t).maxretries
                THEN /\ ret'[t] = Returned("connect", PyFalse, 0)
                     /\ ~Running(t, "connect", "attempt")'
                ELSE /\ Running(t, "connect", "attempt")'
                     /\ Top(t)'.retries = Top(t).retries + 1
                     /\ ret'[t] = ret[t]]_vars

\* A connect() is at its second attempt after a header outside the allowlist.
C8_RetriedAfterInvalidHeader ==
    \E t \in Threads :
        /\ Running(t, "connect", "attempt")
        /\ Top(t).retries = 2
        /\ socket # 0
        /\ sockState[socket] = "badhdr"

\* C9: a call() that returns, returns a response delivered for its handle;
\* one that could not send and got no response through a retry raises.
C9_ReturnsOnlyResponses ==
    \A t \in Threads :
        (ret[t].kind = "value" /\ ret[t].op = "call") => IsResponse(ret[t].val)

\* The invocations of connect() nested in the frame at position i of thread t
ConnectsAbove(t, i) ==
    {j \in (i + 1) .. Len(stack[t]) : stack[t][j].op = "connect"}

\* C10: the chain of invocations a call() starts holds one reconnection: at
\* most one connect() is nested in any frame of call().
C10_OneReconnectionPerChain ==
    \A t \in Threads : \A i \in 1 .. Len(stack[t]) :
        stack[t][i].op = "call" => Cardinality(ConnectsAbove(t, i)) <= 1

\* Receive thread r gets the payload of the frame whose prefix it has read.
PayloadStep(r) ==
    /\ rstate[r] = "payload"
    /\ rstate'[r] # "payload"
    /\ socket # 0
    /\ sockState[socket] = "open"

\* C11: a fault response for a handle in the table is stored as a Fault
\* value and sets the caller's Event, the receive loop goes on, and the
\* call() that waits returns the Fault; it does not raise.
C11_FaultIsReturned ==
    [][/\ \A r \in SockIds :
             (PayloadStep(r) /\ partial[1].frame.kind = "fault"
                 /\ partial[1].frame.h \in DOMAIN handlers) =>
                LET h == partial[1].frame.h IN
                /\ handlers'[h].result = Val("fault", partial[1].frame.req)
                /\ handlers[h].ev \in evSet'
                /\ rstate'[r] = "run"
       /\ \A t \in Threads :
             (Running(t, "call", "wait") /\ Top(t).ev \in evSet
                 /\ Top(t).nh \in DOMAIN handlers
                 /\ handlers[Top(t).nh].result.kind = "fault"
                 /\ stack'[t] # stack[t]) =>
                ret'[t] = Returned("call", handlers[Top(t).nh].result, Top(t).ev)]_vars

\* A call() has returned the Fault the server sent for its frame, and the
\* receive loop is running.
C11_FaultReturned ==
    /\ ret[MainThread].kind = "value"
    /\ ret[MainThread].op = "call"
    /\ ret[MainThread].val = Val("fault", ret[MainThread].ev)
    /\ recv_loop_t # 0
    /\ rstate[recv_loop_t] = "run"

\* C12: once stop() has returned (and the application has started nothing
\* since) the alive flag is false and no receive thread runs.
C12_StoppedStaysDisconnected ==
    \A t \in Users :
        (ret[t].kind = "value" /\ ret[t].op = "stop") =>
            /\ ~connalive
            /\ \A r \in SockIds : rstate[r] \in {"none", "done", "crashed"}

\* C13: a stop() that has set the alive flag false and waits for the
\* receive thread eventually returns.
C13_StopReturns ==
    \A t \in Users : Running(t, "stop", "join") ~> (stack[t] = <<>>)


\* a read by the receive loop r takes bytes out of the socket's buffer
ReadStep(r) == rstate[r] \in {"run", "payload"} /\ rbuf' # rbuf /\ Len(rbuf') < Len(rbuf)

\* C14: however the bytes of a frame are split over the results of recv,
\* the receive loop decodes the frame as it does when the frame arrives in
\* one piece, and stays aligned on the frames that follow: while the
\* connection is open, a read of the loop at the head of a turn yields the
\* prefix of a frame, and the read after it yields that frame's payload,
\* which resolves the frame's handle with what the frame decodes to.
C14_SplitFrameDecodesAsWhole ==
    [][\A r \in SockIds :
        /\ (rstate[r] = "run" /\ ReadStep(r) /\ sockState[socket] = "open")
            => /\ rstate'[r] = "payload"
               /\ hdr'[1].h = hdr'[1].frame.h
               /\ hdr'[1].size = PayloadLen
        /\ (rstate[r] = "payload" /\ rstate'[r] = "run" /\ sockState[socket] = "open"
              /\ hdr[1].h = hdr[1].frame.h)
            => /\ handlers'[hdr[1].h].result = Decoded(hdr[1].frame)
               /\ handlers[hdr[1].h].ev \in evSet'
      ]_vars


\* C15: a read that returns no byte before the frame is complete is a
\* closed connection: the turn of the receive loop that takes b'' from
\* recv(size), the prefix read and the stream at its end, leaves the alive
\* flag false.
C15_ZeroReadMarksDead ==
    [][\A r \in SockIds :
        (/\ rstate[r] = "payload"
         /\ hdr[1].size > 0
         /\ rbuf = <<>>
         /\ sockState[socket] = "eof"
         /\ rstate'[r] # "payload")
        => ~connalive'
      ]_vars


\* C20: a frame whose payload does not decode resolves the pending request
\* of the frame's handle, and no other, with the failure value False; the
\* entries and Events of the other pending requests are as they were, the
\* connection stays alive and the receive loop is at the head of its next
\* turn with the socket lock released.
C20_UndecodableFailsOnlyItsHandle ==
    [][\A r \in SockIds :
        (/\ rstate[r] = "payload"
         /\ rstate'[r] # "payload"
         /\ hdr[1].h = hdr[1].frame.h
         /\ hdr[1].frame.kind = "garbage"
         /\ hdr[1].h \in DOMAIN handlers)
        => LET h == hdr[1].h IN
           /\ handlers'[h].result = PyFalse
           /\ handlers[h].ev \in evSet'
           /\ \A g \in DOMAIN handlers \ {h} :
                /\ handlers'[g] = handlers[g]
                /\ handlers[g].ev \in evSet' <=> handlers[g].ev \in evSet
           /\ rstate'[r] = "run"
           /\ connalive'
           /\ lockOwner' = 0
      ]_vars

\* The first response did not decode and its call returned False; the
\* response that followed it was decoded and returned to its call.
C20_NextFrameDelivered ==
    /\ ret[1] = Returned("call", PyFalse, StreamCall(1).ev)
    /\ ret[2] = Returned("call", Val("ok", StreamCall(2).ev), StreamCall(2).ev)
    /\ wire = <<>>
    /\ rbuf = <<>>


\* the callback frame numbered n has been dispatched: the receive loop has
\* read it and left _handle_result, and the threads started for it have run
Dispatched(n) ==
    /\ \A i \in DOMAIN wire : wire[i].a # n
    /\ hdr = <<>> \/ hdr[1].queue[1].frame # n
    /\ \A x \in spawned : x.frame # n

\* C18: for every callback frame the subscribers of the frame's method are
\* invoked with the frame's arguments in the order of their registration,
\* then the subscribers of "*" in the order of theirs with the method put
\* before the arguments: the invocations made for one frame are in the order
\* of their places, a frame that has been dispatched has had every one of
\* its invocations, and each has the arguments of its subscriber's kind.
C18_ExactThenWildcardInOrder ==
    /\ \A i \in DOMAIN invoked : \A j \in DOMAIN invoked :
          (i < j /\ invoked[i].frame = invoked[j].frame)
              => invoked[i].pos < invoked[j].pos
    /\ \A i \in DOMAIN invoked :
          Dispatched(invoked[i].frame)
              => \A k \in 1 .. invoked[i].of :
                    \E j \in DOMAIN invoked :
                        invoked[j].frame = invoked[i].frame /\ invoked[j].pos = k
    /\ \A i \in DOMAIN invoked :
          invoked[i].args =
              IF \E k \in DOMAIN Registered(Wildcard) :
                     Registered(Wildcard)[k] = invoked[i].sub
              THEN <<CallbackMethod, invoked[i].frame>>
              ELSE <<invoked[i].frame>>


\* the receive loop r invokes a subscriber on its own thread and the
\* subscriber raises
RaiseStep(r) ==
    /\ rstate[r] = "dispatch"
    /\ ~Head(hdr[1].queue).sub.async
    /\ Head(hdr[1].queue).sub.raises
    /\ hdr' # hdr

\* C19: an Exception a subscriber raises while a callback is dispatched
\* does not end the receive loop: after the invocation the loop is at the
\* head of its next turn, the alive flag and the socket as they were and the
\* socket lock released, so the frames that arrive afterwards are read.
C19_SubscriberRaiseKeepsLoop ==
    [][\A r \in SockIds :
        RaiseStep(r)
        => /\ rstate'[r] = "run"
           /\ lockOwner' = 0
           /\ connalive' = connalive
           /\ socket' = socket
           /\ sockState' = sockState
           /\ recv_loop_t' = recv_loop_t
      ]_vars

\* A subscriber raised on the first callback frame; the second frame was
\* dispatched to it all the same, and the response to a call was delivered.
C19_DeliveredAfterRaise ==
    /\ Len(invoked) >= 2
    /\ invoked[1].frame = 1
    /\ invoked[1].sub.raises
    /\ invoked[Len(invoked)].frame = 2
    /\ ret[MainThread].kind = "value"
    /\ ret[MainThread].op = "call"
    /\ ret[MainThread].val = Val("ok", ret[MainThread].ev)


\* the reconnector thread t ends
ReconnectorEnds(t) == stack[t] # <<>> /\ stack'[t] = <<>>

\* some thread is about to call connect(): a receive loop that has seen the
\* reset and starts a reconnector (lines 235-237), or a reconnector
Retrying ==
    \/ \E r \in SockIds : rstate[r] = "spawn"
    \/ \E u \in Reconnectors : stack[u] # <<>>

\* C16: once a receive loop has seen the connection reset, a reconnector
\* keeps retrying connect() until the engine is connected again: when a
\* reconnector thread ends, the alive flag is true or another thread goes on
\* retrying.
C16_ReconnectorRetriesUntilConnected ==
    [][\A t \in Reconnectors : ReconnectorEnds(t) => (connalive' \/ Retrying')]_vars


\* the receive threads that are in the loop of _result_loop
Receiving == {r \in SockIds : rstate[r] \in {"run", "payload", "dispatch"}}

\* C17: at most one receive thread is in its loop at any time, whichever
\* threads call connect().
C17_OneReceiveThread == Cardinality(Receiving) <= 1


\* the receive thread r holds the socket lock and waits for the roster lock
WaitsForRoster(r) ==
    /\ rstate[r] = "dispatch"
    /\ lockOwner = RecvId(r)
    /\ hdr[1].m \in RosterMethods
    /\ ~PlayersLockFree

\* thread t holds the roster lock and waits, in call(), for the socket lock
WaitsForSocket(t) ==
    /\ PlayersLockHeldBy(t)
    /\ Running(t, "call", "send")
    /\ lockOwner # 0

\* C21: no thread is in the engine's call() while it holds a lock of the
\* game state, so the receive thread, dispatching a subscriber of the tracker
\* with the socket lock held, and a thread in initialize() never wait for
\* each other's lock.
C21_NoLockCycle ==
    ~ \E t \in Threads : \E r \in SockIds : WaitsForSocket(t) /\ WaitsForRoster(r)


\* The copies of login l in the multiset that the log of processed events
\* makes: a PlayerConnect or an entry of the roster enumeration adds one, a
\* PlayerDisconnect takes one away if there is one.
RECURSIVE Net(_, _)
Net(log, l) ==
    IF log = <<>> THEN 0
    ELSE LET n == Net(SubSeq(log, 1, Len(log) - 1), l)
             e == log[Len(log)]
         IN IF e.login # l THEN n
            ELSE IF e.m \in {"PlayerConnect", "GetPlayerList"} THEN n + 1
            ELSE IF e.m = "PlayerDisconnect" /\ n > 0 THEN n - 1
            ELSE n

InfoChangedSeen(l) ==
    \E i \in DOMAIN events : events[i].m = "PlayerInfoChanged" /\ events[i].login = l

\* C22: a login is in the roster exactly when the multiset difference of
\* its PlayerConnect callbacks and roster entries over its PlayerDisconnect
\* callbacks is not empty, whatever the order and repetition of the events.
\* (Stated for the logins no PlayerInfoChanged has named.)
C22_RosterIsMultisetDifference ==
    \A l \in Logins :
        ~InfoChangedSeen(l) => (l \in Range(players) <=> Net(events, l) > 0)


\* The positions of the log that decide the membership of login l: its
\* PlayerConnect callbacks, its roster entries and its PlayerDisconnect
\* callbacks.
RosterEvents(l) ==
    {i \in DOMAIN events :
        /\ events[i].login = l
        /\ events[i].m \in {"PlayerConnect", "GetPlayerList", "PlayerDisconnect"}}

ObservedSinceDisconnect(l) ==
    \E i \in RosterEvents(l) :
        /\ events[i].m # "PlayerDisconnect"
        /\ \A j \in RosterEvents(l) : j > i => events[j].m # "PlayerDisconnect"

\* C23: a login is in the roster if and only if a PlayerConnect callback or
\* the roster enumeration of initialize() has named it and no
\* PlayerDisconnect for it has been processed since; PlayerInfoChanged does
\* not change the membership.
C23_RosterIffObserved ==
    \A l \in Logins : l \in Range(players) <=> ObservedSinceDisconnect(l)


\* initialize() ends because the server has answered an empty page
EndsOnEmptyPage(t) ==
    /\ Running(t, "initialize", "page")
    /\ ret[t].val.kind = "ok"
    /\ Page(Top(t).index) = <<>>
    /\ stack'[t] = <<>>

\* C24: when initialize() has paged to the first empty page of a server
\* that holds P players, the roster holds the login of every one of them,
\* also for P above the page size.
C24_EveryPlayerEnumerated ==
    [][EndsOnEmptyPage(MainThread) => Range(srvRoster) \subseteq Range(players')]_vars


PlayerChatSeen == Cardinality({i \in DOMAIN events : events[i].m = "PlayerChat"})

\* C25: whenever a reader takes the chat (getChat, under the chat lock) the
\* buffer holds between 0 and maxChatLines lines, after any sequence of
\* PlayerChat callbacks and for every maxChatLines >= 0.
C25_ChatWithinMaxLines ==
    [][GetChat(MainThread) => (Len(chat) >= 0 /\ Len(chat) <= maxChatLines)]_vars

\* the buffer is full after more PlayerChat callbacks than it holds, and a
\* reader has taken the chat
C25_FullBufferRead ==
    /\ PlayerChatSeen > maxChatLines
    /\ maxChatLines > 0
    /\ Len(chat) = maxChatLines
    /\ ops[MainThread] > 1
    /\ chatLock = 0


\* a PlayerDisconnect callback is handled
DisconnectStep == \E r \in SockIds : OnPlayerDisconnect(r)

\* C26: a PlayerDisconnect callback removes its login from the roster and
\* leaves the cache (so getPlayerByLogin still gives the cached record), the
\* chat buffer and the match start as they were.
C26_DisconnectRemovesAndKeepsCache ==
    [][DisconnectStep =>
          /\ hdr[1].login \notin Range(players')
          /\ playersCache' = playersCache
          /\ heap' = heap
          /\ chat' = chat
          /\ matchStart' = matchStart]_vars


\* what getPlayerByLogin returns for each login, by value
PlayerByLogin ==
    [l \in Logins |-> IF l \in DOMAIN playersCache THEN <<heap[playersCache[l]]>> ELSE <<>>]

\* C27: what getPlayers, getPlayerByLogin and getChat return does not alias
\* the tracker's storage: when the application writes to a returned record,
\* the result of a later getPlayerByLogin is what it was.
C27_QueriesReturnSnapshots ==
    [][ReaderMutate(MainThread) => PlayerByLogin' = PlayerByLogin]_vars


\* C28: the line "m " followed by the written form of a value v (integers,
\* booleans, strings without double quotes, also with backslashes, arrays of
\* them) parses to the method m and the argument list [v].
C28_ParseEmitRoundTrip ==
    (emitted # NoValue /\ parsed # NotParsed) => parsed = ParsedAs(<<"m">>, <<emitted>>)


\* The tokens of a line of brackets, separators and numbers, whitespace
\* ignored: "[", "]", "," and "n" for a number.
RECURSIVE KindsFrom(_, _)
KindsFrom(raw, i) ==
    IF i > Len(raw) THEN <<>>
    ELSE IF raw[i] = " " THEN KindsFrom(raw, i + 1)
    ELSE IF raw[i] \in DigitChars
    THEN (IF i > 1 /\ raw[i - 1] \in DigitChars THEN <<>> ELSE <<"n">>)
         \o KindsFrom(raw, i + 1)
    ELSE <<raw[i]>> \o KindsFrom(raw, i + 1)

\* the text after "m " when the line starts so
Body == SubSeq(rawCommand, 3, Len(rawCommand))
HasMethod == Len(rawCommand) >= 2 /\ rawCommand[1] = "m" /\ rawCommand[2] = " "

\* the line is "m " followed by brackets, separators, numbers and spaces
IsBracketLine == HasMethod /\ Range(Body) \subseteq ArrayChars

\* the tokens after the method name
BodyKinds == KindsFrom(rawCommand, 3)

\* the brackets open after token i
Depth(K, i) ==
    Cardinality({k \in 1 .. i : K[k] = "["}) - Cardinality({k \in 1 .. i : K[k] = "]"})

\* token i ends an element of an array, token j starts one
ElementEnd(K, i) == K[i] \in {"n", "]"} /\ Depth(K, i) >= 1
ElementStart(K, j) == K[j] \in {"n", "["}

\* between two consecutive elements of an array there is exactly one separator
Alternates(K) ==
    \A i, j \in DOMAIN K :
        (/\ i < j
         /\ ElementEnd(K, i)
         /\ ElementStart(K, j)
         /\ \A k \in (i + 1) .. (j - 1) : K[k] = ",") => j = i + 2

\* C29: the parser accepts a line of brackets, separators and numbers only
\* if, whitespace ignored, every two consecutive elements of an array have
\* exactly one separator between them, at any nesting depth.
C29_ElementsAndSeparatorsAlternate ==
    (IsBracketLine /\ parsed # NotParsed /\ parsed.kind = "ok")
        => Alternates(BodyKinds)

\* a separator directly after an opening bracket or before a closing one
EdgeSeparator(K) ==
    \E i \in DOMAIN K :
        /\ i < Len(K)
        /\ \/ K[i] = "[" /\ K[i + 1] = ","
           \/ K[i] = "," /\ K[i + 1] = "]"

\* C30: a line with an array that has a separator before its first element
\* or after its last element is a parse error, at any nesting depth.
C30_EdgeSeparatorRejected ==
    (IsBracketLine /\ parsed # NotParsed /\ EdgeSeparator(BodyKinds))
        => parsed = ParseRaised


\* the backslashes that stand directly before position i
RECURSIVE BackslashesBefore(_, _)
BackslashesBefore(raw, i) ==
    IF i > 1 /\ raw[i - 1] = "\\" THEN 1 + BackslashesBefore(raw, i - 1) ELSE 0

\* Reading raw from position i, inside a string or not, the end of input is
\* reached inside a string: a double quote opens a string, and the next
\* double quote that is not escaped by a backslash closes it.
RECURSIVE EndsInsideString(_, _, _)
EndsInsideString(raw, i, inside) ==
    IF i > Len(raw) THEN inside
    ELSE IF raw[i] # "\"" THEN EndsInsideString(raw, i + 1, inside)
    ELSE IF ~inside THEN EndsInsideString(raw, i + 1, TRUE)
    ELSE EndsInsideString(raw, i + 1, BackslashesBefore(raw, i) % 2 = 1)

Unterminated(raw) == EndsInsideString(raw, 1, FALSE)

\* C31: a line with a string that is opened by a double quote and has no
\* closing unescaped double quote before the end of input is a parse error.
C31_UnterminatedStringRejected ==
    (parsed # NotParsed /\ Unterminated(rawCommand)) => parsed = ParseRaised

\* the line is "m " followed by one run of identifier characters
IsWordLine ==
    /\ HasMethod
    /\ Body # <<>>
    /\ \A i \in DOMAIN Body : IsValidChar(Body[i])

Identifier(chars) == ValueToken("Identifier", PyStr(chars))

\* C32: a run of identifier characters that is not exactly true or false,
\* also one that starts with true or false, is lexed as one Identifier token.
C32_BooleanOnlyWholeWord ==
    (/\ parsed # NotParsed
     /\ IsWordLine
     /\ Body \notin {<<"t", "r", "u", "e">>, <<"f", "a", "l", "s", "e">>})
        => tokens = <<Identifier(<<"m">>), ValueToken("Whitespace", PyStr(<<" ">>)),
                     Identifier(Body)>>

\* a number that starts at position i has a second dot
NumberChars == DigitChars \cup {"."}

SecondDot(raw) ==
    \E i \in DOMAIN raw :
        /\ raw[i] \in DigitChars
        /\ (i = 1 \/ raw[i - 1] \notin NumberChars \cup {"-"})
        /\ LET run == SubSeq(raw, i, RunEnd(raw, i, NumberChars) - 1)
           IN Cardinality({k \in DOMAIN run : run[k] = "."}) > 1

\* the brackets open before position i of a line without strings
CharDepth(raw, i) ==
    Cardinality({k \in 1 .. (i - 1) : raw[k] = "["})
    - Cardinality({k \in 1 .. (i - 1) : raw[k] = "]"})

\* a separator or a closing bracket outside every array
TopLevelStray(raw) ==
    /\ "\"" \notin Range(raw)
    /\ \E i \in DOMAIN raw : raw[i] \in {",", "]"} /\ CharDepth(raw, i) = 0

\* the line does not start with an identifier character
NoLeadingIdentifier(raw) == raw # <<>> /\ ~IsValidChar(raw[1])

\* two consecutive elements of an array with no separator or with two
DoubledOrMissing(K) ==
    \E i, j \in DOMAIN K :
        /\ i < j
        /\ ElementEnd(K, i)
        /\ ElementStart(K, j)
        /\ \A k \in (i + 1) .. (j - 1) : K[k] = ","
        /\ j - i \in {1, 3}

\* C33: the parser fails on a number with a second dot, on an unterminated
\* string, on a separator or a stray closing bracket at top level, on a line
\* whose first token is not an identifier, and on an array with a doubled
\* or a missing separator.
C33_MalformedLinesRejected ==
    (/\ parsed # NotParsed
     /\ \/ SecondDot(rawCommand)
        \/ Unterminated(rawCommand)
        \/ TopLevelStray(rawCommand)
        \/ NoLeadingIdentifier(rawCommand)
        \/ IsBracketLine /\ DoubledOrMissing(BodyKinds))
        => parsed = ParseRaised


\* Thread t, in a connect() that was given an attemptcb, makes an attempt
\* that fails.
FailedAttemptStep(t) ==
    /\ Running(t, "connect", "attempt")
    /\ Top(t).attemptcb
    /\ stack'[t] # stack[t]
    /\ sockState'[socket'] # "open"

\* C34: while every attempt of connect(n, attemptcb) fails, the k-th attempt
\* is preceded by attemptcb(k, n), the invocations so far being those for
\* 1..k in order; connect() returns false after that attempt exactly when
\* n >= 1 and k = n, or n = 0 and k = 1, and otherwise (always for n < 0)
\* goes on to attempt k + 1.
C34_AttemptsAsMaxRetries ==
    [][\A t \in Users :
          FailedAttemptStep(t) =>
             LET n == Top(t).maxretries
                 k == Top(t).retries
                 cbs == AttemptCb(Top(t)).attempted
             IN  /\ cbs = [i \in 1..k |-> <<i, n>>]
                 /\ IF stack'[t] = <<>>
                    THEN /\ ret'[t] = Returned("connect", PyFalse, 0)
                         /\ n >= 0
                         /\ k = IF n = 0 THEN 1 ELSE n
                    ELSE /\ Running(t, "connect", "attempt")'
                         /\ Top(t)'.retries = k + 1
                         /\ Top(t)'.attempted = cbs
                         /\ n < 0 \/ k < n]_vars

\* connect(2, attemptcb) has failed once, has reported attempt 1 of 2 and
\* is about to make its second attempt.
C34_SecondOfTwoAttempts ==
    \E t \in Users :
        /\ Running(t, "connect", "attempt")
        /\ Top(t).maxretries = 2
        /\ Top(t).retries = 2
        /\ Top(t).attempted = <<<<1, 2>>>>
        /\ sockState[socket] \in {"unconn", "badhdr"}
        /\ nextSock < limit.sock


\* C36: for every callback frame each subscriber of the frame's method and
\* each subscriber of "*" is invoked exactly once, also when a subscriber
\* invoked before it on the receive thread raised: once a frame has been
\* dispatched, each of its places has exactly one invocation.
C36_EachSubscriberOnce ==
    \A i \in DOMAIN invoked :
        Dispatched(invoked[i].frame)
            => \A k \in 1 .. invoked[i].of :
                  Cardinality({j \in DOMAIN invoked :
                                  /\ invoked[j].frame = invoked[i].frame
                                  /\ invoked[j].pos = k}) = 1


\* An invocation of connect() on thread t terminates in this step and does
\* not return true: it returns false, or an exception leaves it.
ConnectEndsNotTrue(t) ==
    \E k \in DOMAIN stack[t] :
        /\ stack[t][k].op = "connect"
        /\ Len(stack'[t]) < k
        /\ ret'[t] # Returned("connect", PyTrue, 0)

\* C37: when an invocation of connect() terminates without returning true,
\* the alive flag is false, and so no receive loop keeps running: every
\* loop that is still in a turn finds the flag false at its next test.
C37_FailedConnectLeavesDisconnected ==
    [][\A t \in Threads :
          ConnectEndsNotTrue(t) =>
             /\ ~connalive'
             /\ \A r \in SockIds :
                   rstate'[r] \in {"run", "payload", "spawn", "dispatch"} => ~connalive']_vars


\* C38: the roster never holds the same login twice, whatever PlayerConnect,
\* PlayerDisconnect and PlayerInfoChanged callbacks and initialize() runs
\* have happened.
C38_RosterHasNoDuplicate ==
    \A i \in DOMAIN players : \A j \in DOMAIN players :
        i # j => players[i] # players[j]


\* the messages of the chat buffer, as getChat lists them
ChatMessages == [i \in DOMAIN chat |-> chat[i].message]

\* C40: the chat buffer evicts its oldest line first: after n PlayerChat
\* callbacks a getChat returns the last min(n, maxChatLines) messages, in
\* the order of their arrival (the messages are numbered as they arrive).
C40_ChatKeepsNewestInOrder ==
    [][GetChat(MainThread) =>
          LET n == PlayerChatSeen
              m == Min(n, maxChatLines)
          IN ChatMessages = [i \in 1 .. m |-> n - m + i]]_vars

\* more PlayerChat callbacks than a buffer of two lines holds have been
\* handled, the buffer holds the last two in order, and a reader has taken
\* the chat
C40_OldestEvicted ==
    /\ maxChatLines = 2
    /\ PlayerChatSeen > 2
    /\ ChatMessages = <<PlayerChatSeen - 1, PlayerChatSeen>>
    /\ ops[MainThread] > 1
    /\ chatLock = 0


\* C35: the nickname cache is written only under the lock its readers
\* hold: no write to the cache, by the PlayerInfoChanged subscriber or by
\* initialize(), happens while a thread is inside the locked region of
\* getPlayerByLogin or getPlayers.
C35_NoCacheWriteDuringRead ==
    [][playersCache' # playersCache =>
          \A t \in Threads : ~PlayersCacheLockHeldBy(t)]_vars


\* the call() the subscriber made on receive thread r ended by the timeout
TimedOut(r) ==
    /\ ret[RecvId(r)].kind = "raise"
    /\ ret[RecvId(r)].val.kind = "Timeout"

\* C39: a synchronous call() made by a subscriber that runs on the receive
\* thread does not block the engine for good. No response is delivered to
\* it while the subscriber runs, so the call never returns a value; once
\* the subscriber has invoked call(), the call ends by the timeout, the
\* exception is swallowed by the dispatcher, and the receive loop is back
\* in its loop with the socket lock released.
C39_InlineCallTimesOutLoopResumes ==
    /\ [](\A r \in SockIds : ret[RecvId(r)].kind # "value")
    /\ \A r \in SockIds :
          (stack[RecvId(r)] # <<>>)
              ~> (rstate[r] = "run" /\ lockOwner = 0 /\ TimedOut(r))

\* the subscriber's call() has timed out, the loop has resumed and has
\* read the response that arrived for that call
C39_LateResponseRead ==
    \E r \in SockIds :
        /\ rstate[r] = "run"
        /\ TimedOut(r)
        /\ \E i \in DOMAIN sent :
              /\ sent[i].ev = ret[RecvId(r)].ev
              /\ sent[i].answered

====
